---- MODULE Spec2Model ----
(***************************************************************************)
(* A model of pakal: the bounded stream view (stream.py), the resource     *)
(* loader and its stream (fileio.py) and the archive layer (archive.py).   *)
(*                                                                         *)
(* Nine specifications share this module:                                  *)
(*   SpecView      - PartialStreamView objects over one shared raw stream  *)
(*   SpecNest      - a PartialStreamView made on another one               *)
(*   SpecStream    - a ResourceFile and the ResourceStream bound to it     *)
(*   SpecRes       - ResourceFile.load, temporary files, close and `with`  *)
(*   SpecArc       - BaseArchive / SimpleArchive over its backing stream   *)
(*   SpecLoad      - the two paths of ResourceFile.load on one content     *)
(*   SpecIter      - iteration, glob and exists over the hook's index      *)
(*   SpecExtract   - extractall into an empty directory                    *)
(*   SpecConstruct - the construction of an archive on a path or a stream  *)
(* A specification leaves the variables of the other layers at their idle  *)
(* values.                                                                 *)
(***************************************************************************)
EXTENDS Integers, Sequences, FiniteSets, TLC

VARIABLES
    raw,      \* the innermost (non-view) seekable stream the views share
    views,    \* view id -> PartialStreamView object, or NoView
    solo,     \* the calls on one view replayed on a raw stream nobody else uses
    born,     \* how the view "nested" was constructed
    vlast,    \* the last call made on a view and what it returned
    rfile,    \* a ResourceFile made from a byte buffer
    rstream,  \* the ResourceStream bound to rfile
    closes,   \* how many times rfile was closed
    slast,    \* the last call made on rfile or rstream and what it returned
    loaded,   \* resource id -> the ResourceFile load() returned, or NoRes
    tmpfiles, \* the temporary files load() created, in order of creation
    scope,    \* resource id -> where its `with` block stands
    llast,    \* the last load() call and what it did
    arc,      \* the archive: its backing stream, its index and its state
    handle,   \* the entry stream the last successful open() yielded
    alast,    \* the last call made on the archive and what it returned
    forced,   \* one file content and key put through both paths of load()
    its,      \* the iterators made on the archive and what each has yielded
    dest,     \* the destination directory of the last extractall
    wlast     \* the last glob, read_bytes or extractall and what it returned

viewVars == <<raw, views, solo, born, vlast>>
streamVars == <<rfile, rstream, closes, slast>>
resVars == <<loaded, tmpfiles, scope, llast>>
arcVars == <<arc, handle, alast>>
loadVars == <<forced>>
walkVars == <<its, dest, wlast>>
vars == <<viewVars, streamVars, resVars, arcVars, loadVars, walkVars>>

(***************************************************************************)
(* Bounds of the model.                                                    *)
(***************************************************************************)
\* length of the file behind the raw stream
FileLen == 3
\* largest offset a view is opened at
MaxOffset == 1
\* largest size a view is opened with
MaxSize == 1
\* largest length of the buffer behind a ResourceFile
MaxRes == 4
\* how many times a ResourceFile is closed
MaxCloses == 2
\* how far the size of a loaded file goes past the large-file threshold
MaxOver == 1
\* largest length of a content put through both paths of load()
MaxData == 2
\* seeks on a view reach the positions -1 .. MaxPos: one before the window
\* and up to one past the end of the largest window
MaxPos == MaxSize + 1

(***************************************************************************)
(* Python helpers.                                                         *)
(***************************************************************************)
Min(a, b) == IF a <= b THEN a ELSE b
Max(a, b) == IF a >= b THEN a ELSE b

\* the optional size argument of read(): None, or an integer
None == [given |-> FALSE, n |-> 0]
Some(n) == [given |-> TRUE, n |-> n]

\* a directory with nothing in it: files maps a path to the bytes of the file
EmptyDir == [files |-> <<>>, dirs |-> {}]

\* no file put through load()
NoForced == [applied |-> 0]

\* no archive constructed; no member opened yet
NoArchive == [state |-> "Created"]
NoHandle == [scope |-> "none"]

\* io.SEEK_SET, io.SEEK_CUR, io.SEEK_END
SEEK_SET == 0
SEEK_CUR == 1
SEEK_END == 2
Whences == {SEEK_SET, SEEK_CUR, SEEK_END}

\* the bytes of the file behind the raw stream: byte i is 10 + i, so a byte
\* names the offset it came from
Data == [i \in 1..FileLen |-> 10 + i]

\* Python's seq[a:b] for a sequence, a and b any integers
PySlice(s, a, b) ==
    LET n  == Len(s)
        lo == IF a < 0 THEN Max(a + n, 0) ELSE Min(a, n)
        hi == IF b < 0 THEN Max(b + n, 0) ELSE Min(b, n)
    IN  IF lo >= hi THEN <<>> ELSE SubSeq(s, lo + 1, hi)

(***************************************************************************)
(* The raw stream under a view: a file object of the host I/O layer        *)
(* (io.FileIO semantics).  s = [kind, pos, closed].                        *)
(***************************************************************************)
NewRaw == [kind |-> "raw", pos |-> 0, closed |-> FALSE]

\* stream.seek(p, io.SEEK_SET): a closed stream or a negative target raises
RawSeek(s, p) ==
    IF s.closed \/ p < 0
    THEN [raised |-> TRUE, stream |-> s]
    ELSE [raised |-> FALSE, stream |-> [s EXCEPT !.pos = p]]

\* stream.read(n): a negative n reads to the end of the file
RawRead(s, n) ==
    LET avail == Max(0, Len(Data) - s.pos)
        k     == IF n < 0 THEN avail ELSE Min(n, avail)
    IN  IF s.closed
        THEN [raised |-> TRUE, stream |-> s, data |-> <<>>]
        ELSE [raised |-> FALSE,
              stream |-> [s EXCEPT !.pos = s.pos + k],
              data   |-> PySlice(Data, s.pos, s.pos + k)]

(***************************************************************************)
(* stream.py: PartialStreamView                                            *)
(***************************************************************************)
NoView == [kind |-> "none"]

\* PartialStreamView.__init__(stream, size): stream is the raw stream or
\* another view
PartialStreamView_init_nosum(stream, size) ==
    [kind   |-> "view",
     stream |-> IF stream.kind = "view" THEN stream.stream ELSE stream.kind,
     start  |-> stream.pos,
     size   |-> size,
     pos    |-> 0]

PartialStreamView_init(stream, size) ==
    [kind   |-> "view",
     stream |-> IF stream.kind = "view" THEN stream.stream ELSE stream.kind,
     start  |-> IF stream.kind = "view"
                THEN stream.pos + stream.start
                ELSE stream.pos,
     size   |-> size,
     pos    |-> 0]

\* PartialStreamView.seek(pos, whence)
PartialStreamView_seek(v, pos, whence) ==
    [v EXCEPT !.pos = IF whence = SEEK_CUR THEN pos + v.pos
                      ELSE IF whence = SEEK_END THEN pos + v.size
                      ELSE pos]

\* PartialStreamView.tell()
PartialStreamView_tell(v) == v.pos

\* The size handed to the underlying read
ViewReadSize(v, size) ==
    IF size # None /\ size.n >= 0
    THEN Min(v.size - v.pos, size.n)
    ELSE v.size - v.pos

\* PartialStreamView.read(size) without the repositioning of line 27
PartialStreamView_read_noseek(v, under, size) ==
    LET r == RawRead(under, ViewReadSize(v, size))
    IN  [raised |-> r.raised,
         view   |-> [v EXCEPT !.pos = v.pos + Len(r.data)],
         under  |-> r.stream,
         at     |-> under.pos,
         data   |-> r.data]

\* PartialStreamView.read(size): under is the stream the view is bound to
PartialStreamView_read(v, under, size) ==
    LET s == RawSeek(under, v.start + v.pos)
        r == RawRead(s.stream, ViewReadSize(v, size))
    IN  IF s.raised
        THEN [raised |-> TRUE, view |-> v, under |-> under,
              at |-> under.pos, data |-> <<>>]
        ELSE [raised |-> r.raised,
              view   |-> [v EXCEPT !.pos = v.pos + Len(r.data)],
              under  |-> r.stream,
              at     |-> s.stream.pos,
              data   |-> r.data]

(***************************************************************************)
(* fileio.py: ResourceFile.  r = [buffer, hasbuf, closed, tmpfile].        *)
(* Calls return [err, ...]: err is "" when the call returned.              *)
(***************************************************************************)
\* io.DEFAULT_BUFFER_SIZE.  CPython's value is 8192; the model scales it down
\* to 2 so that both sides of every comparison with it are reached by
\* buffers of a few bytes.  The code only compares sizes with it.
DEFAULT_BUFFER_SIZE == 2

\* the first n bytes every buffer of the model is made of
FileBytes(n) == [i \in 1..n |-> (37 * i) % 256]

\* ValueError('I/O operation on closed file')
ClosedError == "ValueError: I/O operation on closed file"

\* self._tmpfile is None
NoTmp == 0

\* ResourceFile.__init__(buffer, tmpfile)
ResourceFile_init(buffer, tmpfile) ==
    [buffer |-> buffer, hasbuf |-> TRUE, closed |-> FALSE, tmpfile |-> tmpfile]

\* ResourceFile.__len__
ResourceFile_len(r) ==
    IF r.closed
    THEN [err |-> ClosedError, n |-> 0]
    ELSE [err |-> "", n |-> Len(r.buffer)]

\* ResourceFile.__buffer__
ResourceFile_buffer(r) ==
    IF r.closed
    THEN [err |-> ClosedError, data |-> <<>>]
    ELSE [err |-> "", data |-> r.buffer]

\* ResourceFile.__getitem__(slice(a, b)) with the closed test left out: the
\* buffer attribute is gone after close
ResourceFile_getitem_unchecked(r, a, b) ==
    IF r.hasbuf
    THEN [err |-> "", data |-> PySlice(r.buffer, a, b)]
    ELSE [err |-> "AttributeError", data |-> <<>>]

\* ResourceFile.__getitem__(slice(a, b))
ResourceFile_getitem(r, a, b) ==
    IF ~r.closed
    THEN [err |-> "", data |-> PySlice(r.buffer, a, b)]
    ELSE [err |-> ClosedError, data |-> <<>>]

\* ResourceFile.__getitem__(i), i an integer
ResourceFile_getitem_int(r, i) ==
    IF ~r.closed
    THEN IF i >= -Len(r.buffer) /\ i < Len(r.buffer)
         THEN [err |-> "",
               n |-> r.buffer[IF i < 0 THEN i + Len(r.buffer) + 1 ELSE i + 1]]
         ELSE [err |-> "IndexError", n |-> 0]
    ELSE [err |-> ClosedError, n |-> 0]

\* ResourceFile.close(): tmps is the table of temporary files
ResourceFile_close(r, tmps) ==
    [res  |-> [r EXCEPT !.tmpfile = NoTmp, !.hasbuf = FALSE,
                        !.buffer = <<>>, !.closed = TRUE],
     tmps |-> IF r.tmpfile # NoTmp
              THEN [tmps EXCEPT ![r.tmpfile] = [open |-> FALSE, content |-> <<>>]]
              ELSE tmps]

\* ResourceFile.__exit__(exc_type, ...) closing only on a normal exit
ResourceFile_exit_unless_raised(r, tmps, raised) ==
    IF raised THEN [res |-> r, tmps |-> tmps] ELSE ResourceFile_close(r, tmps)

\* ResourceFile.__exit__(exc_type, ...): raised tells whether the body raised
ResourceFile_exit(r, tmps, raised) == ResourceFile_close(r, tmps)

\* a ^ b on two bytes, bit by bit
RECURSIVE BitXor(_, _)
BitXor(a, b) ==
    IF a = 0 /\ b = 0 THEN 0
    ELSE (((a % 2) + (b % 2)) % 2) + 2 * BitXor(a \div 2, b \div 2)

\* data + key (mod 256) on an array of bytes
AddBytes(data, key) == [i \in 1..Len(data) |-> (data[i] + key) % 256]

\* data ^ key on an array of bytes
XorBytes(data, key) == [i \in 1..Len(data) |-> BitXor(data[i], key)]

\* io.DEFAULT_BUFFER_SIZE ** 2, the size from which a file is mapped
Threshold == DEFAULT_BUFFER_SIZE * DEFAULT_BUFFER_SIZE

\* tempfile.TemporaryFile() holding `content`; gone[t] once it is closed
TmpFile(content) == [open |-> TRUE, content |-> content]

\* the error of mapping an empty file (mmap: "cannot mmap an empty file")
EmptyMapError == "ValueError: cannot mmap an empty file"

\* ResourceFile.load below the threshold: np.fromfile, then tobytes()
ResourceFile_load_small(src, key) ==
    [err |-> "",
     res |-> ResourceFile_init(IF key = 0 THEN src ELSE XorBytes(src, key),
                               NoTmp),
     path |-> "memory"]

\* ResourceFile.load at or above the threshold, writing the mapped bytes to
\* the temporary file as they are, whatever the key
ResourceFile_load_large_untransformed(src, key, copy, tmps) ==
    IF src = <<>>
    THEN [err |-> EmptyMapError, res |-> ResourceFile_init(<<>>, NoTmp),
          tmps |-> tmps, path |-> "none"]
    ELSE IF key = 0 /\ ~copy
    THEN [err |-> "", res |-> ResourceFile_init(src, NoTmp), tmps |-> tmps,
          path |-> "srcmap"]
    ELSE [err |-> "", res |-> ResourceFile_init(src, Len(tmps) + 1),
          tmps |-> Append(tmps, TmpFile(src)), path |-> "tmpmap"]

\* ResourceFile.load at or above the threshold: the file is mapped (an empty
\* file cannot be); the mapping backs the resource ("srcmap") or its bytes,
\* transformed when there is a key, are written to a new temporary file
\* whose mapping backs the resource ("tmpmap")
ResourceFile_load_large(src, key, copy, tmps) ==
    IF src = <<>>
    THEN [err |-> EmptyMapError, res |-> ResourceFile_init(<<>>, NoTmp),
          tmps |-> tmps, path |-> "none"]
    ELSE IF key = 0 /\ ~copy
    THEN [err |-> "", res |-> ResourceFile_init(src, NoTmp), tmps |-> tmps,
          path |-> "srcmap"]
    ELSE LET written == IF key = 0 THEN src ELSE XorBytes(src, key)
             t == Len(tmps) + 1
         IN  [err |-> "", res |-> ResourceFile_init(written, t),
              tmps |-> Append(tmps, TmpFile(written)), path |-> "tmpmap"]

\* ResourceFile.load(file_path, key, copy=...) with the copy test inverted
ResourceFile_load_copy_inverted(src, key, copy, tmps) ==
    IF Len(src) < Threshold
    THEN [err |-> "", tmps |-> tmps, path |-> "memory",
          res |-> ResourceFile_load_small(src, key).res]
    ELSE ResourceFile_load_large(src, key, ~copy, tmps)

\* ResourceFile.load(file_path, key, copy=...): src is the content of the
\* file.  path tells what backs the buffer: "memory" (the bytes read from the
\* file), "srcmap" (the read-only mapping of the file itself) or "tmpmap"
\* (the mapping of a new temporary file the content was written to).
ResourceFile_load(src, key, copy, tmps) ==
    IF Len(src) < Threshold
    THEN [err |-> "", tmps |-> tmps, path |-> "memory",
          res |-> ResourceFile_load_small(src, key).res]
    ELSE ResourceFile_load_large(src, key, copy, tmps)

(***************************************************************************)
(* fileio.py: ResourceStream.  s = [pos, size, ioclosed]; the ResourceFile *)
(* it is bound to is passed along.                                         *)
(***************************************************************************)
\* ResourceStream.__init__(res)
ResourceStream_init(r) ==
    [pos |-> 0, size |-> Len(r.buffer), ioclosed |-> FALSE]

\* ResourceStream.seek(offset, whence) where SEEK_END counts from the position
ResourceStream_seek_endfrompos(s, offset, whence) ==
    LET o == IF whence = SEEK_SET THEN offset ELSE offset + s.pos
    IN  [stream |-> [s EXCEPT !.pos = o],
         err    |-> IF o < 0 THEN "OSError: Negative seek position" ELSE "",
         n      |-> o]

\* ResourceStream.seek(offset, whence): the position is assigned before the
\* negative test
ResourceStream_seek(s, offset, whence) ==
    LET o == IF whence = SEEK_CUR THEN offset + s.pos
             ELSE IF whence = SEEK_END THEN offset + s.size
             ELSE offset
    IN  [stream |-> [s EXCEPT !.pos = o],
         err    |-> IF o < 0 THEN "OSError: Negative seek position" ELSE "",
         n      |-> o]

\* ResourceStream.tell()
ResourceStream_tell(s) == s.pos

\* ResourceStream.read(size): the position moves before the slice is taken
ResourceStream_read(s, r, size) ==
    LET n == IF size # None /\ size.n >= 0
             THEN Min(s.size - s.pos, size.n)
             ELSE s.size - s.pos
        g == ResourceFile_getitem(r, s.pos, s.pos + n)
    IN  [stream |-> [s EXCEPT !.pos = s.pos + n], err |-> g.err, data |-> g.data]

\* Python's b[:hi] = src for a bytearray b
PySliceAssign(b, hi, src) ==
    LET n == Len(b)
        h == IF hi < 0 THEN Max(hi + n, 0) ELSE Min(hi, n)
    IN  src \o PySlice(b, h, n)

\* ResourceStream.readinto(b): b is the caller's bytearray
ResourceStream_readinto(s, r, b) ==
    LET n == Min(Len(b), s.size - s.pos)
        g == ResourceFile_getitem(r, s.pos, s.pos + n)
    IN  IF g.err # ""
        THEN [stream |-> s, err |-> g.err, buf |-> b, n |-> 0]
        ELSE [stream |-> [s EXCEPT !.pos = s.pos + n], err |-> "",
              buf |-> PySliceAssign(b, n, g.data), n |-> n]

\* ResourceStream.close(): io.RawIOBase.close(), then the ResourceFile's close
ResourceStream_close(s, r, tmps) ==
    LET c == ResourceFile_close(r, tmps)
    IN  [stream |-> [s EXCEPT !.ioclosed = TRUE], res |-> c.res, tmps |-> c.tmps]

\* io.RawIOBase.readall() on a ResourceStream, as io.BufferedReader.read()
\* calls it: read(DEFAULT_BUFFER_SIZE) until a read returns no bytes
RECURSIVE RawIOBase_readall(_, _)
RawIOBase_readall(s, r) ==
    LET c == ResourceStream_read(s, r, Some(DEFAULT_BUFFER_SIZE))
    IN  IF c.err # "" \/ c.data = <<>>
        THEN [stream |-> c.stream, err |-> c.err, data |-> <<>>]
        ELSE LET rest == RawIOBase_readall(c.stream, r)
             IN  [stream |-> rest.stream, err |-> rest.err,
                  data |-> c.data \o rest.data]

\* the object partial() returns: io.BytesIO over a copy of the slice, or
\* io.BufferedReader over a ResourceStream over a second ResourceFile
NoEntry == [kind |-> "none"]

\* ResourceStream.partial(offset, size) slicing self._res[offset : size]
ResourceStream_partial_badslice(s, r, offset, size) ==
    LET g == ResourceFile_getitem(r, offset, size)
        second == ResourceFile_init(g.data, NoTmp)
    IN  IF g.err # "" THEN [err |-> g.err, entry |-> NoEntry]
        ELSE IF size > DEFAULT_BUFFER_SIZE
        THEN [err |-> "",
              entry |-> [kind |-> "buffered", res |-> second,
                         stream |-> ResourceStream_init(second),
                         closed |-> FALSE]]
        ELSE [err |-> "",
              entry |-> [kind |-> "bytesio", data |-> g.data, pos |-> 0,
                         closed |-> FALSE]]

\* ResourceStream.partial(offset, size)
ResourceStream_partial(s, r, offset, size) ==
    LET g == ResourceFile_getitem(r, offset, offset + size)
        second == ResourceFile_init(g.data, NoTmp)
    IN  IF g.err # "" THEN [err |-> g.err, entry |-> NoEntry]
        ELSE IF size > DEFAULT_BUFFER_SIZE
        THEN [err |-> "",
              entry |-> [kind |-> "buffered", res |-> second,
                         stream |-> ResourceStream_init(second),
                         closed |-> FALSE]]
        ELSE [err |-> "",
              entry |-> [kind |-> "bytesio", data |-> g.data, pos |-> 0,
                         closed |-> FALSE]]

\* entry.read() on the object partial() returned: everything to its end
Entry_read(e) ==
    IF e.kind = "bytesio"
    THEN [err |-> "", data |-> PySlice(e.data, e.pos, Len(e.data)),
          entry |-> [e EXCEPT !.pos = Max(e.pos, Len(e.data))]]
    ELSE LET a == RawIOBase_readall(e.stream, e.res)
         IN  [err |-> a.err, data |-> a.data,
              entry |-> [e EXCEPT !.stream = a.stream]]

(***************************************************************************)
(* archive.py: read_file, BaseArchive, SimpleArchive.  A member name is    *)
(* the sequence of the components of its path ("b/../a.txt" is             *)
(* <<"b", "..", "a.txt">>).                                                *)
(***************************************************************************)
\* os.path.normpath on the components of a relative path: "" and "." are
\* dropped, ".." removes the component before it unless there is none or it
\* is ".." itself
RECURSIVE NormComps(_, _)
NormComps(comps, acc) ==
    IF comps = <<>> THEN acc
    ELSE LET c == Head(comps)
         IN  IF c \in {"", "."} THEN NormComps(Tail(comps), acc)
             ELSE IF c # ".." \/ acc = <<>> \/ acc[Len(acc)] = ".."
             THEN NormComps(Tail(comps), Append(acc, c))
             ELSE NormComps(Tail(comps), SubSeq(acc, 1, Len(acc) - 1))

normpath(path) ==
    LET comps == NormComps(path, <<>>)
    IN  IF comps = <<>> THEN <<".">> ELSE comps

\* the lookup key of open() when the name is used as it is given
rawpath(path) == path

\* the lookup key of open(): os.path.normpath(fname)
LookupKey(fname) == normpath(fname)

\* _create_index() of an archive of len bytes: one member larger than
\* DEFAULT_BUFFER_SIZE when the archive is, one of one byte and an empty one
CreateIndex(len) ==
    [name \in {<<"a.txt">>, <<"d", ".", "b.txt">>, <<"e">>} |->
        IF name = <<"a.txt">> THEN [offset |-> 0, size |-> len - 1]
        ELSE IF name = <<"e">> THEN [offset |-> len, size |-> 0]
        ELSE [offset |-> len - 1, size |-> 1]]

\* the index BaseArchive.__init__ keeps: the keys normalised
NormalIndex(created) ==
    [key \in {normpath(name) : name \in DOMAIN created} |->
        created[CHOOSE name \in DOMAIN created : normpath(name) = key]]

\* the stream an archive is constructed on
BackKinds == {"resource", "bytesio", "file", "pview"}

\* io.BufferedReader(ResourceStream(ResourceFile(bytes))), io.BytesIO(bytes),
\* a file object of the host, or a PartialStreamView made on such a file
NewBacking(kind) ==
    IF kind = "resource"
    THEN LET res == ResourceFile_init(FileBytes(MaxRes), NoTmp)
         IN  [kind |-> kind, res |-> res, stream |-> ResourceStream_init(res)]
    ELSE IF kind = "bytesio"
    THEN [kind |-> kind, data |-> Data, pos |-> 0, closed |-> FALSE]
    ELSE IF kind = "file"
    THEN [kind |-> kind, raw |-> NewRaw]
    ELSE [kind |-> kind, raw |-> NewRaw,
          view |-> PartialStreamView_init(NewRaw, FileLen), closed |-> FALSE]

BackingLen(kind) == IF kind = "resource" THEN MaxRes ELSE FileLen

\* the position of the backing stream
BackingPos(b) ==
    IF b.kind = "resource" THEN b.stream.pos
    ELSE IF b.kind = "bytesio" THEN b.pos
    ELSE IF b.kind = "file" THEN b.raw.pos
    ELSE b.view.pos

\* assert len(substream) == size
AssertionError == "AssertionError"

\* read_file(stream, offset, size): the entry stream, and the backing stream
\* as the call leaves it
read_file(b, offset, size) ==
    IF b.kind = "resource"
    THEN LET p == ResourceStream_partial(b.stream, b.res, offset, size)
         IN  [err |-> p.err, entry |-> p.entry, backing |-> b]
    ELSE IF b.kind = "bytesio"
    THEN LET substream == PySlice(b.data, offset, offset + size)
         IN  IF b.closed
             THEN [err |-> ClosedError, entry |-> NoEntry, backing |-> b]
             ELSE IF Len(substream) # size
             THEN [err |-> AssertionError, entry |-> NoEntry, backing |-> b]
             ELSE [err |-> "", backing |-> b,
                   entry |-> [kind |-> "bytesio", data |-> substream,
                              pos |-> 0, closed |-> FALSE]]
    ELSE IF b.kind = "file"
    THEN LET s == RawSeek(b.raw, offset)
         IN  IF s.raised
             THEN [err |-> ClosedError, entry |-> NoEntry, backing |-> b]
             ELSE [err |-> "", backing |-> [b EXCEPT !.raw = s.stream],
                   entry |-> [kind |-> "view", closed |-> FALSE,
                              view |-> PartialStreamView_init(s.stream, size)]]
    ELSE LET v == PartialStreamView_seek(b.view, offset, SEEK_SET)
         IN  [err |-> "", backing |-> [b EXCEPT !.view = v],
              entry |-> [kind |-> "view", closed |-> FALSE,
                         view |-> PartialStreamView_init(v, size)]]

\* SimpleArchive._read_entry(entry): yields read_file(...) and does nothing
\* when the block that uses it ends
SimpleArchive_read_entry(b, entry) == read_file(b, entry.offset, entry.size)

MemberNotFoundError == "MemberNotFoundError"

\* BaseArchive.__init__(file) on a stream of the given kind
BaseArchive_init(kind) ==
    [backing |-> NewBacking(kind),
     index   |-> NormalIndex(CreateIndex(BackingLen(kind))),
     state   |-> "Indexed"]

\* BaseArchive.open(fname, mode) up to its yield.  hooked: _read_entry ran.
BaseArchive_open(a, fname, text) ==
    IF LookupKey(fname) \notin DOMAIN a.index
    THEN [err |-> MemberNotFoundError, hooked |-> FALSE, arc |-> a,
          entry |-> NoEntry, member |-> [offset |-> 0, size |-> 0]]
    ELSE LET member == a.index[LookupKey(fname)]
             r == SimpleArchive_read_entry(a.backing, member)
         IN  [err |-> r.err, hooked |-> TRUE,
              arc |-> [a EXCEPT !.backing = r.backing],
              entry |-> r.entry, member |-> member]

\* self._stream.close(): BufferedReader.close() closes the ResourceStream,
\* which closes its ResourceFile; closing a PartialStreamView marks the view
\* closed and leaves the stream under it alone
Stream_close(b) ==
    IF b.kind = "resource"
    THEN LET c == ResourceStream_close(b.stream, b.res, <<>>)
         IN  [b EXCEPT !.stream = c.stream, !.res = c.res]
    ELSE IF b.kind = "file"
    THEN [b EXCEPT !.raw.closed = TRUE]
    ELSE [b EXCEPT !.closed = TRUE]

\* BaseArchive.close(), which BaseArchive.__exit__ calls
BaseArchive_close(a) ==
    [a EXCEPT !.backing = Stream_close(a.backing), !.state = "Closed"]

\* whether the stream open() yielded is closed
EntryClosed(e) ==
    IF e.kind = "buffered" THEN e.closed \/ e.res.closed ELSE e.closed

\* whether the backing stream of the archive is closed
BackingClosed(b) ==
    IF b.kind = "resource" THEN b.res.closed \/ b.stream.ioclosed
    ELSE IF b.kind = "file" THEN b.raw.closed
    ELSE b.closed

\* a close() of the entry stream that closes the stream it was made from
EntryStream_close_through(e, b) ==
    [entry |-> [e EXCEPT !.closed = TRUE], backing |-> Stream_close(b)]

\* stream.close() on the stream open() yielded (io.TextIOWrapper.close()
\* closes the stream it wraps): io.BytesIO.close() drops the copy;
\* io.BufferedReader.close() closes its ResourceStream, which closes the
\* second ResourceFile; io.RawIOBase.close() marks a PartialStreamView
\* closed.  b is the backing stream of the archive.
EntryStream_close(e, b) ==
    IF e.kind = "buffered"
    THEN LET c == ResourceStream_close(e.stream, e.res, <<>>)
         IN  [entry |-> [e EXCEPT !.stream = c.stream, !.res = c.res,
                                  !.closed = TRUE],
              backing |-> b]
    ELSE [entry |-> [e EXCEPT !.closed = TRUE], backing |-> b]

\* stream.read() on the stream open() yielded in mode 'rb'; a closed
\* io.BytesIO or io.BufferedReader refuses, PartialStreamView.read does
\* not look at its closed flag
EntryStream_read(e, b) ==
    IF e.kind # "view" /\ EntryClosed(e)
    THEN [err |-> ClosedError, data |-> <<>>, entry |-> e, backing |-> b]
    ELSE IF e.kind = "view"
    THEN LET r == PartialStreamView_read(e.view, b.raw, None)
         IN  [err |-> IF r.raised THEN ClosedError ELSE "", data |-> r.data,
              entry |-> [e EXCEPT !.view = r.view],
              backing |-> [b EXCEPT !.raw = r.under]]
    ELSE LET r == Entry_read(e)
         IN  [err |-> r.err, data |-> r.data, entry |-> r.entry, backing |-> b]

(***************************************************************************)
(* archive.py: ArchivePath, iteration and glob.  A pattern is the sequence *)
(* of the patterns of its components; a component pattern is "*", "*" and  *)
(* a suffix, or a literal name.                                            *)
(***************************************************************************)
\* the keys of a dictionary in which a key inserted again moves to the end
RECURSIVE DictKeys_reinserted(_)
DictKeys_reinserted(items) ==
    IF items = <<>> THEN <<>>
    ELSE LET before == DictKeys_reinserted(SubSeq(items, 1, Len(items) - 1))
             key == normpath(items[Len(items)].name)
         IN  Append(SelectSeq(before, LAMBDA k : k # key), key)

\* {os.path.normpath(name): entry for name, entry in created.items()}: a key
\* keeps the place of its first insertion and the entry of its last one.
\* created is the sequence of the items of the mapping the hook returned.
RECURSIVE DictKeys(_)
DictKeys(items) ==
    IF items = <<>> THEN <<>>
    ELSE LET before == DictKeys(SubSeq(items, 1, Len(items) - 1))
             key == normpath(items[Len(items)].name)
         IN  IF \E i \in 1..Len(before) : before[i] = key
             THEN before ELSE Append(before, key)

DictValue(items, key) ==
    LET last == CHOOSE i \in 1..Len(items) :
                    /\ normpath(items[i].name) = key
                    /\ \A j \in i + 1..Len(items) : normpath(items[j].name) # key
    IN  items[last].entry

\* BaseArchive.__init__(file) on a stream of the given kind, _create_index()
\* returning the mapping whose items are `created`; order is the order in
\* which the index iterates; created is kept to say what the hook returned
BaseArchive_init_hook(kind, created) ==
    [backing |-> NewBacking(kind),
     index   |-> [key \in {normpath(it.name) : it \in
                              {created[i] : i \in 1..Len(created)}} |->
                     DictValue(created, key)],
     order   |-> DictKeys(created),
     created |-> created,
     state   |-> "Indexed"]

\* the file argument of the constructor: a path, or a stream of the caller
PathFile == [ispath |-> TRUE]
StreamFile(b) == [ispath |-> FALSE, stream |-> b]

\* stream.seek(p) by the caller, before the stream is handed over
BackingSeek(b, p) ==
    IF b.kind = "resource"
    THEN [b EXCEPT !.stream = ResourceStream_seek(b.stream, p, SEEK_SET).stream]
    ELSE IF b.kind = "bytesio" THEN [b EXCEPT !.pos = p]
    ELSE IF b.kind = "file" THEN [b EXCEPT !.raw = RawSeek(b.raw, p).stream]
    ELSE [b EXCEPT !.view = PartialStreamView_seek(b.view, p, SEEK_SET)]

\* BaseArchive.__init__(file): a path is opened by the opener
\* (ResourceFile.open: a new stream), a stream is kept as it is; then
\* _create_index() is called.  hookpos is where the stream stood when the
\* hook was called, hooks the number of its calls.
BaseArchive_init_file(file, created) ==
    LET stream == IF file.ispath THEN NewBacking("resource") ELSE file.stream
    IN  [backing |-> stream,
         index   |-> [key \in {normpath(it.name) : it \in
                                  {created[i] : i \in 1..Len(created)}} |->
                         DictValue(created, key)],
         order   |-> DictKeys(created),
         created |-> created,
         hookpos |-> BackingPos(stream),
         hooks   |-> 1,
         state   |-> "Indexed"]

\* ArchivePath(fname, archive): self.fname = pathlib.Path(normpath(fname))
ArchivePath_init(fname) == [fname |-> normpath(fname)]

\* str(path)
ArchivePath_str(p) == p.fname

\* pathlib's parts of a relative path: "." has none
PathParts(fname) == IF fname = <<".">> THEN <<>> ELSE fname

\* path.parent as an ArchivePath
ArchivePath_parent(p) ==
    LET parts == PathParts(p.fname)
    IN  ArchivePath_init(IF parts = <<>> THEN <<>>
                         ELSE SubSeq(parts, 1, Len(parts) - 1))

\* the suffix of a component name
Suffix(comp) ==
    IF comp = "a.txt" THEN ".txt" ELSE IF comp = "c.bin" THEN ".bin" ELSE ""

\* fnmatch.fnmatchcase(comp, pat)
Fnmatch(comp, pat) ==
    IF pat.kind = "any" THEN TRUE
    ELSE IF pat.kind = "ends" THEN Suffix(comp) = pat.text
    ELSE comp = pat.text

\* the pattern '*' (GLOB_ALL), '*.txt', 'b/*' and 'c.bin'
GLOB_ALL == <<[kind |-> "any", text |-> "*"]>>
Patterns ==
    {GLOB_ALL,
     <<[kind |-> "ends", text |-> ".txt"]>>,
     <<[kind |-> "name", text |-> "b"], [kind |-> "any", text |-> "*"]>>,
     <<[kind |-> "name", text |-> "c.bin"]>>}

\* pathlib.PurePath.match(pattern) for a relative pattern: the pattern is
\* matched against the last components of the path
PurePath_match(parts, pattern) ==
    /\ Len(pattern) <= Len(parts)
    /\ \A i \in 1..Len(pattern) :
          Fnmatch(parts[Len(parts) - Len(pattern) + i], pattern[i])

\* ArchivePath.match(pattern)
ArchivePath_match(p, pattern) == PurePath_match(PathParts(p.fname), pattern)

\* list(archive): BaseArchive.__iter__ run to its end
BaseArchive_iter(a) == [i \in 1..Len(a.order) |-> ArchivePath_init(a.order[i])]

\* list(archive.glob(pattern))
BaseArchive_glob(a, pattern) ==
    SelectSeq(BaseArchive_iter(a), LAMBDA p : ArchivePath_match(p, pattern))

\* the pattern str(path) is: every component a literal name
PatternOf(fname) ==
    [i \in 1..Len(PathParts(fname)) |->
        [kind |-> "name", text |-> PathParts(fname)[i]]]

\* pathlib refuses a pattern without components
EmptyPatternError == "ValueError: empty pattern"

\* ArchivePath.exists(): any(self.archive.glob(str(self))) -- match is
\* called for the paths of the index, one after the other, until one matches
ArchivePath_exists(a, p) ==
    IF PatternOf(p.fname) = <<>> /\ Len(a.order) > 0
    THEN [err |-> EmptyPatternError, value |-> FALSE]
    ELSE [err |-> "",
          value |-> BaseArchive_glob(a, PatternOf(p.fname)) # <<>>]

(***************************************************************************)
(* archive.py: buffered and extractall.  The destination directory is      *)
(* fs = [files, dirs]: files maps the path of a file, relative to the      *)
(* destination, to its bytes; dirs is the set of the directories.          *)
(***************************************************************************)
\* infile.read(n) on the stream open() yielded in mode 'rb'
EntryStream_readn(e, b, n) ==
    IF e.kind = "view"
    THEN LET r == PartialStreamView_read(e.view, b.raw, Some(n))
         IN  [err |-> IF r.raised THEN ClosedError ELSE "", data |-> r.data,
              entry |-> [e EXCEPT !.view = r.view],
              backing |-> [b EXCEPT !.raw = r.under]]
    ELSE IF e.kind = "bytesio"
    THEN [err |-> "", data |-> PySlice(e.data, e.pos, e.pos + n),
          entry |-> [e EXCEPT !.pos = Min(e.pos + n, Max(e.pos, Len(e.data)))],
          backing |-> b]
    ELSE LET r == ResourceStream_read(e.stream, e.res, Some(n))
         IN  [err |-> r.err, data |-> r.data,
              entry |-> [e EXCEPT !.stream = r.stream], backing |-> b]

\* the host refusing a write (disk full, ...)
WriteError == "OSError: write failed"

\* no failure of the host
NoFail == [at |-> 0, chunk |-> 0]

\* a copy that writes the first chunk only
CopyChunks_first(e, b, out, written, failchunk) ==
    LET c == EntryStream_readn(e, b, DEFAULT_BUFFER_SIZE)
    IN  [err |-> c.err, data |-> out \o c.data, backing |-> c.backing,
         sizes |-> written \o <<Len(c.data)>>]

\* for buffer in buffered(infile.read): outfile.write(buffer) -- chunks of
\* DEFAULT_BUFFER_SIZE are read until a read returns no bytes.  out is what
\* the file holds, written the lengths of the chunks written so far; the
\* write of chunk number failchunk is refused by the host.
RECURSIVE CopyChunks(_, _, _, _, _)
CopyChunks(e, b, out, written, failchunk) ==
    LET Turn(c) ==
            IF c.err # ""
            THEN [err |-> c.err, data |-> out, backing |-> c.backing,
                  sizes |-> written]
            ELSE IF c.data = <<>>
            THEN [err |-> "", data |-> out, backing |-> c.backing,
                  sizes |-> written]
            ELSE IF Len(written) + 1 = failchunk
            THEN [err |-> WriteError, data |-> out, backing |-> c.backing,
                  sizes |-> written]
            ELSE CopyChunks(c.entry, c.backing, out \o c.data,
                            Append(written, Len(c.data)), failchunk)
    IN  CHOOSE r \in {Turn(c) :
                         c \in {EntryStream_readn(e, b, DEFAULT_BUFFER_SIZE)}} :
            TRUE

\* os.makedirs(dirname / path, exist_ok=True): every directory on the way is
\* made; a file standing where a directory is needed makes it fail
Makedirs(fs, path) ==
    IF \E n \in 1..Len(path) : SubSeq(path, 1, n) \in DOMAIN fs.files
    THEN [err |-> "FileExistsError", fs |-> fs]
    ELSE [err |-> "",
          fs |-> [fs EXCEPT !.dirs = @ \cup {SubSeq(path, 1, n) :
                                              n \in 0..Len(path)}]]

\* io.open(dirname / path, 'wb'): the file is created or emptied; a
\* directory standing there makes it fail
OpenWrite(fs, path) ==
    IF path \in fs.dirs
    THEN [err |-> "IsADirectoryError", fs |-> fs]
    ELSE [err |-> "",
          fs |-> [fs EXCEPT !.files =
                     [q \in DOMAIN fs.files \cup {path} |->
                         IF q = path THEN <<>> ELSE fs.files[q]]]]

\* the file at path holds data
WriteFile(fs, path, data) ==
    [fs EXCEPT !.files = [q \in DOMAIN fs.files \cup {path} |->
                             IF q = path THEN data ELSE fs.files[q]]]

\* extractall leaving by an exception that undoes what it wrote
Abort_rollback(err, k, a, fs, tried, sizes) ==
    [err |-> err, failedAt |-> k, arc |-> a, fs |-> EmptyDir, tried |-> tried,
     sizes |-> sizes]

\* extractall left by the exception err raised while the k-th matching
\* entry was extracted: nothing is undone and nothing more is done
Abort(err, k, a, fs, tried, sizes) ==
    [err |-> err, failedAt |-> k, arc |-> a, fs |-> fs, tried |-> tried,
     sizes |-> sizes]

\* one turn of the loop of extractall, for the k-th matching path p:
\* makedirs of the parent (md), the member opened in mode 'rb' (o), the file
\* opened in mode 'wb' (ow), the chunks copied (c); the first of them that
\* raises ends the turn.  st.tried lists the paths whose extraction was
\* begun, st.sizes the lengths of all chunks written.
ExtractOne(p, k, st, fail) ==
    LET began == Append(st.tried, p)
        file == PathParts(p.fname)
        Copied(o, ow, c) ==
            LET after == WriteFile(ow.fs, file, c.data)
                moved == [o.arc EXCEPT !.backing = c.backing]
            IN  IF c.err # ""
                THEN Abort(c.err, k, moved, after, began, st.sizes \o c.sizes)
                ELSE [err |-> "", failedAt |-> 0, arc |-> moved, fs |-> after,
                      tried |-> began, sizes |-> st.sizes \o c.sizes]
        Opened(md, o, ow) ==
            IF ow.err # ""
            THEN Abort(ow.err, k, o.arc, md.fs, began, st.sizes)
            ELSE CHOOSE r \in
                     {Copied(o, ow, c) :
                         c \in {CopyChunks(o.entry, o.arc.backing, <<>>, <<>>,
                                           IF fail.at = k THEN fail.chunk
                                                          ELSE 0)}} : TRUE
        Made(md, o) ==
            IF o.err # ""
            THEN Abort(o.err, k, o.arc, md.fs, began, st.sizes)
            ELSE CHOOSE r \in {Opened(md, o, ow) :
                                 ow \in {OpenWrite(md.fs, file)}} : TRUE
        Begun(md) ==
            IF md.err # ""
            THEN Abort(md.err, k, st.arc, st.fs, began, st.sizes)
            ELSE CHOOSE r \in {Made(md, o) :
                                 o \in {BaseArchive_open(st.arc, p.fname,
                                                         FALSE)}} : TRUE
    IN  CHOOSE r \in
            {Begun(md) :
                md \in {Makedirs(st.fs,
                                 PathParts(ArchivePath_parent(p).fname))}} :
            TRUE

\* for entry in self.glob(pattern): ... -- the turns for the paths not yet
\* taken, the head of paths being the k-th; an exception ends the loop
RECURSIVE ExtractFrom(_, _, _, _)
ExtractFrom(paths, k, st, fail) ==
    IF paths = <<>> \/ st.failedAt > 0
    THEN st
    ELSE CHOOSE out \in {ExtractFrom(Tail(paths), k + 1, nxt, fail) :
                            nxt \in {ExtractOne(Head(paths), k, st, fail)}} :
             TRUE

\* BaseArchive.extractall(dirname, pattern) into an empty directory
BaseArchive_extractall(a, pattern, fail) ==
    ExtractFrom(BaseArchive_glob(a, pattern), 1,
                [err |-> "", failedAt |-> 0, arc |-> a, fs |-> EmptyDir,
                 tried |-> <<>>, sizes |-> <<>>],
                fail)

(***************************************************************************)
(* The view layer: views opened on one shared raw stream, views nested in  *)
(* views, and other code that moves the stream.  `solo` replays the calls  *)
(* made on the view solo.id on a view that was made directly on a raw      *)
(* stream of its own.                                                      *)
(***************************************************************************)
NoCall == [op |-> "none"]
NoBirth == [how |-> "none"]
NoSolo(i) == [id |-> i, view |-> NoView, raw |-> NewRaw]

\* the sizes a read is called with: none, a negative one, 0..MaxSize
ReadSizes == {None} \cup {Some(n) : n \in -1..MaxSize}

\* the seeks a view is called with: absolute, relative to the current
\* position and relative to the end
SeekCalls ==
    {<<p, SEEK_SET>> : p \in -1..MaxPos}
        \cup {<<d, SEEK_CUR>> : d \in {-1, 1}}
        \cup {<<d, SEEK_END>> : d \in {-1, 0, 1}}

\* archive.read_file, generic branch: stream.seek(offset); view of `size`
OpenView(i, offset, size) ==
    /\ views[i] = NoView
    /\ LET s == RawSeek(raw, offset)
           p == RawSeek(NewRaw, offset)
       IN  /\ ~s.raised
           /\ raw' = s.stream
           /\ views' = [views EXCEPT ![i] = PartialStreamView_init(s.stream, size)]
           /\ solo' = IF i = solo.id
                      THEN [solo EXCEPT
                              !.view = PartialStreamView_init(p.stream, size),
                              !.raw  = p.stream]
                      ELSE solo
           /\ vlast' = NoCall
           /\ UNCHANGED born

\* PartialStreamView(views[o], size): a view constructed over the view o.
\* Its replay is a single view made directly on a raw stream that stands at
\* the outer view's start + position (there is none when that is negative).
NestView(i, o, size) ==
    /\ views[i] = NoView
    /\ views[o] # NoView
    /\ LET p == RawSeek(NewRaw, views[o].start + views[o].pos)
       IN  /\ views' = [views EXCEPT ![i] = PartialStreamView_init(views[o], size)]
           /\ solo' = IF i = solo.id /\ ~p.raised
                      THEN [solo EXCEPT
                              !.view = PartialStreamView_init(p.stream, size),
                              !.raw  = p.stream]
                      ELSE solo
           /\ born' = [how |-> "nested", pstart |-> views[o].start,
                       ppos |-> views[o].pos, psize |-> views[o].size]
           /\ vlast' = NoCall
           /\ UNCHANGED raw

\* view.seek(pos, whence)
SeekView(i, pos, whence) ==
    /\ views[i] # NoView
    /\ LET v == PartialStreamView_seek(views[i], pos, whence)
       IN  /\ v.pos >= -1 /\ v.pos <= MaxPos
           /\ views' = [views EXCEPT ![i] = v]
           /\ solo' = IF i = solo.id /\ solo.view # NoView
                      THEN [solo EXCEPT !.view =
                              PartialStreamView_seek(@, pos, whence)]
                      ELSE solo
           /\ vlast' = NoCall
           /\ UNCHANGED <<raw, born>>

\* view.read(n)
ReadView(i, n) ==
    /\ views[i] # NoView
    /\ LET r == PartialStreamView_read(views[i], raw, n)
           replayed == i = solo.id /\ solo.view # NoView
           g == PartialStreamView_read(solo.view, solo.raw, n)
       IN  /\ raw' = r.under
           /\ views' = [views EXCEPT ![i] = r.view]
           /\ solo' = IF replayed
                      THEN [solo EXCEPT !.view = g.view, !.raw = g.under]
                      ELSE solo
           /\ vlast' = [op |-> "read", id |-> i,
                        past |-> views[i].pos > views[i].size,
                        moved |-> raw.pos # views[i].start + views[i].pos,
                        raised |-> r.raised,
                        at |-> IF r.data = <<>> THEN 0 ELSE r.at,
                        data |-> r.data,
                        same |-> replayed =>
                                   /\ g.raised = r.raised
                                   /\ g.data = r.data
                                   /\ g.view = r.view]
           /\ UNCHANGED born

\* other code repositions the shared raw stream between two calls
OtherSeek(p) ==
    /\ LET s == RawSeek(raw, p)
       IN  /\ ~s.raised
           /\ s.stream # raw
           /\ raw' = s.stream
    /\ vlast' = NoCall
    /\ UNCHANGED <<views, solo, born>>

(***************************************************************************)
(* SpecView: two views opened by read_file on one shared raw stream.       *)
(***************************************************************************)
InitView ==
    /\ rfile = ResourceFile_init(<<>>, NoTmp)
    /\ rstream = ResourceStream_init(rfile)
    /\ closes = 0
    /\ slast = [op |-> "none"]
    /\ loaded = <<>>
    /\ tmpfiles = <<>>
    /\ scope = <<>>
    /\ llast = [op |-> "none"]
    /\ arc = NoArchive
    /\ handle = NoHandle
    /\ alast = [op |-> "none"]
    /\ forced = NoForced
    /\ its = <<>>
    /\ dest = EmptyDir
    /\ wlast = [op |-> "none"]
    /\ raw = NewRaw
    /\ views = [i \in {"v1", "v2"} |-> NoView]
    /\ solo = NoSolo("v1")
    /\ born = NoBirth
    /\ vlast = NoCall

NextView ==
    \/ /\ \E i \in DOMAIN views, offset \in 0..MaxOffset, size \in 0..MaxSize :
             OpenView(i, offset, size)
       /\ UNCHANGED <<streamVars, resVars, arcVars, loadVars, walkVars>>
    \/ /\ \E i \in DOMAIN views, c \in SeekCalls : SeekView(i, c[1], c[2])
       /\ UNCHANGED <<streamVars, resVars, arcVars, loadVars, walkVars>>
    \/ /\ \E i \in DOMAIN views, n \in ReadSizes : ReadView(i, n)
       /\ UNCHANGED <<streamVars, resVars, arcVars, loadVars, walkVars>>
    \/ /\ \E p \in 0..FileLen : OtherSeek(p)
       /\ UNCHANGED <<streamVars, resVars, arcVars, loadVars, walkVars>>

SpecView == InitView /\ [][NextView]_vars

(***************************************************************************)
(* SpecNest: a view opened by read_file and a view constructed over it.    *)
(***************************************************************************)
InitNest ==
    /\ rfile = ResourceFile_init(<<>>, NoTmp)
    /\ rstream = ResourceStream_init(rfile)
    /\ closes = 0
    /\ slast = [op |-> "none"]
    /\ loaded = <<>>
    /\ tmpfiles = <<>>
    /\ scope = <<>>
    /\ llast = [op |-> "none"]
    /\ arc = NoArchive
    /\ handle = NoHandle
    /\ alast = [op |-> "none"]
    /\ forced = NoForced
    /\ its = <<>>
    /\ dest = EmptyDir
    /\ wlast = [op |-> "none"]
    /\ raw = NewRaw
    /\ views = [i \in {"outer", "nested"} |-> NoView]
    /\ solo = NoSolo("nested")
    /\ born = NoBirth
    /\ vlast = NoCall

NextNest ==
    \/ /\ \E offset \in 0..MaxOffset, size \in 0..MaxSize :
             OpenView("outer", offset, size)
       /\ UNCHANGED <<streamVars, resVars, arcVars, loadVars, walkVars>>
    \/ /\ \E size \in 0..MaxSize : NestView("nested", "outer", size)
       /\ UNCHANGED <<streamVars, resVars, arcVars, loadVars, walkVars>>
    \/ /\ \E i \in DOMAIN views, c \in SeekCalls : SeekView(i, c[1], c[2])
       /\ UNCHANGED <<streamVars, resVars, arcVars, loadVars, walkVars>>
    \/ /\ \E i \in DOMAIN views, n \in ReadSizes : ReadView(i, n)
       /\ UNCHANGED <<streamVars, resVars, arcVars, loadVars, walkVars>>

SpecNest == InitNest /\ [][NextNest]_vars

(***************************************************************************)
(* SpecStream: one ResourceFile made from a buffer, the ResourceStream on  *)
(* it, and the calls made on both.                                         *)
(***************************************************************************)
NoTmps == <<>>

\* the record of a call: what was called, whether rfile was closed when it
\* was called, and what came back
Call(op, r, err, data, n) ==
    [op |-> op, wasClosed |-> r.closed, err |-> err, data |-> data, n |-> n]

InitStream ==
    /\ raw = NewRaw
    /\ views = <<>>
    /\ solo = NoSolo("")
    /\ born = NoBirth
    /\ vlast = NoCall
    /\ \E len \in 0..MaxRes :
          /\ rfile = ResourceFile_init(FileBytes(len), NoTmp)
          /\ rstream = ResourceStream_init(rfile)
    /\ closes = 0
    /\ slast = [op |-> "none"]
    /\ loaded = <<>>
    /\ tmpfiles = <<>>
    /\ scope = <<>>
    /\ llast = [op |-> "none"]
    /\ arc = NoArchive
    /\ handle = NoHandle
    /\ alast = [op |-> "none"]
    /\ forced = NoForced
    /\ its = <<>>
    /\ dest = EmptyDir
    /\ wlast = [op |-> "none"]

\* rstream.seek(offset, whence)
StreamSeek(offset, whence) ==
    LET c == ResourceStream_seek(rstream, offset, whence)
    IN  /\ c.stream.pos >= -1 /\ c.stream.pos <= MaxRes + 1
        /\ rstream' = c.stream
        /\ slast' = [op |-> "seek", wasClosed |-> rfile.closed, err |-> c.err,
                     data |-> <<>>, n |-> c.n, at |-> rstream.pos,
                     offset |-> offset, whence |-> whence]
        /\ UNCHANGED <<rfile, closes>>

\* rstream.read(size)
StreamRead(size) ==
    LET c == ResourceStream_read(rstream, rfile, size)
    IN  /\ rstream' = c.stream
        /\ slast' = [op |-> "read", wasClosed |-> rfile.closed, err |-> c.err,
                     data |-> c.data, n |-> 0, at |-> rstream.pos,
                     size |-> size]
        /\ UNCHANGED <<rfile, closes>>

\* rstream.readinto(bytearray(blen))
StreamReadInto(blen) ==
    LET c == ResourceStream_readinto(rstream, rfile, [i \in 1..blen |-> 0])
    IN  /\ rstream' = c.stream
        /\ slast' = [op |-> "readinto", wasClosed |-> rfile.closed,
                     err |-> c.err, data |-> c.buf, n |-> c.n,
                     at |-> rstream.pos, blen |-> blen]
        /\ UNCHANGED <<rfile, closes>>

\* len(rfile)
ResLen ==
    /\ slast' = Call("len", rfile, ResourceFile_len(rfile).err, <<>>,
                     ResourceFile_len(rfile).n)
    /\ UNCHANGED <<rfile, rstream, closes>>

\* memoryview(rfile): the buffer export
ResBuffer ==
    /\ slast' = Call("buffer", rfile, ResourceFile_buffer(rfile).err,
                     ResourceFile_buffer(rfile).data, 0)
    /\ UNCHANGED <<rfile, rstream, closes>>

\* rfile[i]
ResGetInt(i) ==
    /\ slast' = Call("getitem", rfile, ResourceFile_getitem_int(rfile, i).err,
                     <<>>, ResourceFile_getitem_int(rfile, i).n)
    /\ UNCHANGED <<rfile, rstream, closes>>

\* rfile[a:b]
ResGetSlice(a, b) ==
    /\ slast' = Call("getslice", rfile, ResourceFile_getitem(rfile, a, b).err,
                     ResourceFile_getitem(rfile, a, b).data, 0)
    /\ UNCHANGED <<rfile, rstream, closes>>

\* rfile.close()
ResClose ==
    /\ closes < MaxCloses
    /\ rfile' = ResourceFile_close(rfile, NoTmps).res
    /\ closes' = closes + 1
    /\ slast' = Call("close", rfile, "", <<>>, 0)
    /\ UNCHANGED rstream

\* rstream.close()
StreamClose ==
    /\ closes < MaxCloses
    /\ LET c == ResourceStream_close(rstream, rfile, NoTmps)
       IN  rfile' = c.res /\ rstream' = c.stream
    /\ closes' = closes + 1
    /\ slast' = Call("close", rfile, "", <<>>, 0)

\* rstream.partial(offset, size).read()
PartialRead(offset, size) ==
    LET p == ResourceStream_partial(rstream, rfile, offset, size)
        d == Entry_read(p.entry)
    IN  /\ slast' = [op |-> "partial", wasClosed |-> rfile.closed,
                     offset |-> offset, size |-> size,
                     kind |-> p.entry.kind,
                     err |-> IF p.err # "" THEN p.err ELSE d.err,
                     data |-> IF p.err # "" THEN <<>> ELSE d.data, n |-> 0]
        /\ UNCHANGED <<rfile, rstream, closes>>

NextStream ==
    \/ /\ \E c \in {<<p, SEEK_SET>> : p \in -1..MaxRes + 1}
             \cup {<<d, w>> : d \in {-1, 1}, w \in {SEEK_CUR, SEEK_END}}
             \cup {<<-(MaxRes + 1), SEEK_END>>} :
             StreamSeek(c[1], c[2])
       /\ UNCHANGED <<viewVars, resVars, arcVars, loadVars, walkVars>>
    \/ /\ \E size \in {None} \cup {Some(n) : n \in -1..DEFAULT_BUFFER_SIZE + 1} :
             StreamRead(size)
       /\ UNCHANGED <<viewVars, resVars, arcVars, loadVars, walkVars>>
    \/ /\ \E blen \in 0..DEFAULT_BUFFER_SIZE : StreamReadInto(blen)
       /\ UNCHANGED <<viewVars, resVars, arcVars, loadVars, walkVars>>
    \/ ResLen /\ UNCHANGED <<viewVars, resVars, arcVars, loadVars, walkVars>>
    \/ ResBuffer /\ UNCHANGED <<viewVars, resVars, arcVars, loadVars, walkVars>>
    \/ /\ \E i \in -1..1 : ResGetInt(i)
       /\ UNCHANGED <<viewVars, resVars, arcVars, loadVars, walkVars>>
    \/ /\ \E a \in 0..1, b \in 1..MaxRes : ResGetSlice(a, b)
       /\ UNCHANGED <<viewVars, resVars, arcVars, loadVars, walkVars>>
    \/ ResClose /\ UNCHANGED <<viewVars, resVars, arcVars, loadVars, walkVars>>
    \/ StreamClose /\ UNCHANGED <<viewVars, resVars, arcVars, loadVars, walkVars>>
    \/ /\ \E offset \in 0..MaxRes, size \in 0..MaxRes : PartialRead(offset, size)
       /\ UNCHANGED <<viewVars, resVars, arcVars, loadVars, walkVars>>

SpecStream == InitStream /\ [][NextStream]_vars

(***************************************************************************)
(* SpecRes: files loaded by ResourceFile.load, the temporary files behind  *)
(* them, and the `with` blocks and close() calls that release them.        *)
(***************************************************************************)
ResIds == {"r1", "r2"}

\* no ResourceFile yet
NoRes == [closed |-> FALSE, tmpfile |-> NoTmp, hasbuf |-> FALSE, buffer |-> <<>>,
          absent |-> TRUE]

\* the XOR keys load() is called with: none, and 0x5A
Keys == {0, 90}

InitRes ==
    /\ raw = NewRaw
    /\ views = <<>>
    /\ solo = NoSolo("")
    /\ born = NoBirth
    /\ vlast = NoCall
    /\ rfile = ResourceFile_init(<<>>, NoTmp)
    /\ rstream = ResourceStream_init(rfile)
    /\ closes = 0
    /\ slast = [op |-> "none"]
    /\ loaded = [id \in ResIds |-> NoRes]
    /\ tmpfiles = <<>>
    /\ scope = [id \in ResIds |-> "none"]
    /\ llast = [op |-> "none"]
    /\ arc = NoArchive
    /\ handle = NoHandle
    /\ alast = [op |-> "none"]
    /\ forced = NoForced
    /\ its = <<>>
    /\ dest = EmptyDir
    /\ wlast = [op |-> "none"]

\* res = ResourceFile.load(path, key, copy=copy) on a file of `size` bytes
Load(id, size, key, copy) ==
    /\ loaded[id] = NoRes
    /\ LET l == ResourceFile_load(FileBytes(size), key, copy, tmpfiles)
       IN  /\ loaded' = [loaded EXCEPT ![id] = l.res]
           /\ tmpfiles' = l.tmps
           /\ llast' = [op |-> "load", id |-> id, size |-> size, key |-> key,
                        copy |-> copy, path |-> l.path,
                        created |-> Len(l.tmps) - Len(tmpfiles),
                        buffer |-> l.res.buffer]
    /\ UNCHANGED scope

\* `with res:` is entered (AbstractContextManager.__enter__ returns res)
Enter(id) ==
    /\ loaded[id] # NoRes /\ scope[id] = "none"
    /\ scope' = [scope EXCEPT ![id] = "inside"]
    /\ llast' = [op |-> "enter", id |-> id]
    /\ UNCHANGED <<loaded, tmpfiles>>

\* the `with` block ends: normally, or because its body raised
Exit(id, raised) ==
    /\ scope[id] = "inside"
    /\ LET c == ResourceFile_exit(loaded[id], tmpfiles, raised)
       IN  loaded' = [loaded EXCEPT ![id] = c.res] /\ tmpfiles' = c.tmps
    /\ scope' = [scope EXCEPT ![id] = IF raised THEN "raised" ELSE "left"]
    /\ llast' = [op |-> "exit", id |-> id]

\* res.close(), inside or outside a `with` block, any number of times
Close(id) ==
    /\ loaded[id] # NoRes
    /\ LET c == ResourceFile_close(loaded[id], tmpfiles)
       IN  loaded' = [loaded EXCEPT ![id] = c.res] /\ tmpfiles' = c.tmps
    /\ llast' = [op |-> "close", id |-> id]
    /\ UNCHANGED scope

NextRes ==
    \/ /\ \E id \in ResIds, size \in 0..Threshold + MaxOver, key \in Keys,
             copy \in BOOLEAN : Load(id, size, key, copy)
       /\ UNCHANGED <<viewVars, streamVars, arcVars, loadVars, walkVars>>
    \/ /\ \E id \in ResIds : Enter(id)
       /\ UNCHANGED <<viewVars, streamVars, arcVars, loadVars, walkVars>>
    \/ /\ \E id \in ResIds : Exit(id, FALSE)
       /\ UNCHANGED <<viewVars, streamVars, arcVars, loadVars, walkVars>>
    \/ /\ \E id \in ResIds : Exit(id, TRUE)
       /\ UNCHANGED <<viewVars, streamVars, arcVars, loadVars, walkVars>>
    \/ /\ \E id \in ResIds : Close(id)
       /\ UNCHANGED <<viewVars, streamVars, arcVars, loadVars, walkVars>>

SpecRes == InitRes /\ [][NextRes]_vars

(***************************************************************************)
(* SpecLoad: one file content and one key, put through the in-memory path  *)
(* and through the mapping path of ResourceFile.load.  The output of a     *)
(* load can be stored as the new content of the file, so that the          *)
(* transform is applied a second time.                                     *)
(***************************************************************************)
\* the bytes the contents are made of
SampleBytes == {0, 255}

\* the byte sequences of length at most n over SampleBytes
RECURSIVE Contents(_)
Contents(n) ==
    IF n = 0 THEN {<<>>}
    ELSE Contents(n - 1)
         \cup {Append(c, b) : c \in {d \in Contents(n - 1) : Len(d) = n - 1},
                              b \in SampleBytes}

\* no load made
NoLoad == [done |-> FALSE]

InitLoad ==
    /\ raw = NewRaw
    /\ views = <<>>
    /\ solo = NoSolo("")
    /\ born = NoBirth
    /\ vlast = NoCall
    /\ rfile = ResourceFile_init(<<>>, NoTmp)
    /\ rstream = ResourceStream_init(rfile)
    /\ closes = 0
    /\ slast = [op |-> "none"]
    /\ loaded = <<>>
    /\ tmpfiles = <<>>
    /\ scope = <<>>
    /\ llast = [op |-> "none"]
    /\ arc = NoArchive
    /\ handle = NoHandle
    /\ alast = [op |-> "none"]
    /\ \E content \in Contents(MaxData), k \in 0..255 :
          forced = [content |-> content, key |-> k, stored |-> content,
                    applied |-> 0, small |-> NoLoad, large |-> NoLoad]
    /\ its = <<>>
    /\ dest = EmptyDir
    /\ wlast = [op |-> "none"]

\* what a load returned: its error, and the length and bytes of the resource
Loaded(l) ==
    [done |-> TRUE, err |-> l.err, path |-> l.path,
     len |-> IF l.err = "" THEN ResourceFile_len(l.res).n ELSE 0,
     bytes |-> IF l.err = "" THEN ResourceFile_buffer(l.res).data ELSE <<>>]

\* load(path, key) with the threshold above the size of the file
LoadSmallPath ==
    /\ forced.applied < 2
    /\ forced' = [forced EXCEPT
                    !.small = Loaded(ResourceFile_load_small(forced.stored,
                                                             forced.key))]

\* load(path, key, copy=copy) with the threshold at or below the size of the
\* file
LoadLargePath(copy) ==
    /\ forced.applied < 2
    /\ forced' = [forced EXCEPT
                    !.large = Loaded(ResourceFile_load_large(forced.stored,
                                         forced.key, copy, <<>>))]

\* the bytes a load returned are written to the file
StoreOutput(l) ==
    /\ l.done /\ l.err = ""
    /\ forced' = [forced EXCEPT !.stored = l.bytes, !.applied = @ + 1,
                                !.small = NoLoad, !.large = NoLoad]

NextLoad ==
    \/ LoadSmallPath /\ UNCHANGED <<viewVars, streamVars, resVars, arcVars, walkVars>>
    \/ /\ \E copy \in BOOLEAN : LoadLargePath(copy)
       /\ UNCHANGED <<viewVars, streamVars, resVars, arcVars, walkVars>>
    \/ StoreOutput(forced.small)
       /\ UNCHANGED <<viewVars, streamVars, resVars, arcVars, walkVars>>
    \/ StoreOutput(forced.large)
       /\ UNCHANGED <<viewVars, streamVars, resVars, arcVars, walkVars>>

SpecLoad == InitLoad /\ [][NextLoad]_vars

(***************************************************************************)
(* SpecArc: one archive on each kind of backing stream; members are        *)
(* opened under every spelling of their names, the block using a member    *)
(* ends normally or by an exception, the stream it was given is read, and  *)
(* the archive is closed.                                                  *)
(***************************************************************************)
\* the names open() is called with: three spellings of one member, the
\* other members, and two names that are not in the archive
Names ==
    {<<"a.txt">>, <<".", "a.txt">>, <<"b", "..", "a.txt">>,
     <<"d", "b.txt">>, <<"e">>, <<"zz">>, <<"..", "a.txt">>}

InitArc ==
    /\ raw = NewRaw
    /\ views = <<>>
    /\ solo = NoSolo("")
    /\ born = NoBirth
    /\ vlast = NoCall
    /\ rfile = ResourceFile_init(<<>>, NoTmp)
    /\ rstream = ResourceStream_init(rfile)
    /\ closes = 0
    /\ slast = [op |-> "none"]
    /\ loaded = <<>>
    /\ tmpfiles = <<>>
    /\ scope = <<>>
    /\ llast = [op |-> "none"]
    /\ \E kind \in BackKinds : arc = BaseArchive_init(kind)
    /\ handle = NoHandle
    /\ alast = [op |-> "none"]
    /\ forced = NoForced
    /\ its = <<>>
    /\ dest = EmptyDir
    /\ wlast = [op |-> "none"]

\* `with arc.open(fname, mode) as stream:` is entered
OpenMember(fname, text) ==
    LET o == BaseArchive_open(arc, fname, text)
    IN  /\ arc' = o.arc
        /\ handle' = IF o.err = ""
                     THEN [scope |-> "inside", text |-> text,
                           member |-> o.member, stream |-> o.entry]
                     ELSE handle
        /\ alast' = [op |-> "open", fname |-> fname, err |-> o.err,
                     hooked |-> o.hooked, yielded |-> o.err = "",
                     was |-> arc.state, pos |-> BackingPos(arc.backing),
                     member |-> o.member]

\* the block of the `with` ends: normally, or because its body raised
LeaveMember(raised) ==
    /\ handle.scope = "inside"
    /\ handle' = [handle EXCEPT !.scope = IF raised THEN "raised" ELSE "left"]
    /\ alast' = [op |-> "leave"]
    /\ UNCHANGED arc

\* stream.read() on the stream of the last open(), in or after its block
ReadMember ==
    /\ handle.scope # "none" /\ ~handle.text
    /\ LET r == EntryStream_read(handle.stream, arc.backing)
       IN  /\ handle' = [handle EXCEPT !.stream = r.entry]
           /\ arc' = [arc EXCEPT !.backing = r.backing]
           /\ alast' = [op |-> "read", err |-> r.err, data |-> r.data]

\* stream.close() on the stream of the last open(), in or after its block
CloseEntry ==
    /\ handle.scope # "none"
    /\ LET c == EntryStream_close(handle.stream, arc.backing)
       IN  /\ handle' = [handle EXCEPT !.stream = c.entry]
           /\ arc' = [arc EXCEPT !.backing = c.backing]
           /\ alast' = [op |-> "close_entry", was |-> arc.state,
                        index |-> arc.index, text |-> handle.text,
                        member |-> handle.member]

\* arc.close()
CloseArchive ==
    /\ arc' = BaseArchive_close(arc)
    /\ alast' = [op |-> "close"]
    /\ UNCHANGED handle

\* the block of `with arc:` ends (BaseArchive.__exit__)
LeaveArchive ==
    /\ arc.state = "Indexed"
    /\ arc' = BaseArchive_close(arc)
    /\ alast' = [op |-> "exit"]
    /\ UNCHANGED handle

NextArc ==
    \/ /\ \E fname \in Names, text \in BOOLEAN : OpenMember(fname, text)
       /\ UNCHANGED <<viewVars, streamVars, resVars, loadVars, walkVars>>
    \/ /\ LeaveMember(FALSE)
       /\ UNCHANGED <<viewVars, streamVars, resVars, loadVars, walkVars>>
    \/ /\ LeaveMember(TRUE)
       /\ UNCHANGED <<viewVars, streamVars, resVars, loadVars, walkVars>>
    \/ /\ ReadMember
       /\ UNCHANGED <<viewVars, streamVars, resVars, loadVars, walkVars>>
    \/ /\ CloseEntry
       /\ UNCHANGED <<viewVars, streamVars, resVars, loadVars, walkVars>>
    \/ /\ CloseArchive
       /\ UNCHANGED <<viewVars, streamVars, resVars, loadVars, walkVars>>
    \/ /\ LeaveArchive
       /\ UNCHANGED <<viewVars, streamVars, resVars, loadVars, walkVars>>

SpecArc == InitArc /\ [][NextArc]_vars

(***************************************************************************)
(* SpecIter: an archive whose index comes from one of several hook         *)
(* outputs; it is iterated by two iterators that are started and restarted *)
(* at any time, globbed, and its members are read in between.              *)
(***************************************************************************)
\* the mappings _create_index() returns, as the sequences of their names:
\* the three members of a plain archive; two spellings of one member around
\* another member; a member with an empty name; a member named as the
\* directory of another, in both orders; no member
HookOutputs ==
    {<<<<"a.txt">>, <<"b", "c.bin">>, <<"empty">>>>,
     <<<<".", "a.txt">>, <<"empty">>, <<"b", "..", "a.txt">>>>,
     <<<<"">>, <<"a.txt">>>>,
     <<<<"b">>, <<"b", "c.bin">>>>,
     <<<<"b", "c.bin">>, <<"b">>>>,
     <<>>}

\* the (offset, size) of the member of that name in an archive of len bytes
EntryOf(name, len) ==
    IF name = <<"empty">> THEN [offset |-> len, size |-> 0]
    ELSE IF name = <<"b", "c.bin">> THEN [offset |-> 1, size |-> len - 1]
    ELSE IF name = <<"b">> THEN [offset |-> len - 1, size |-> 1]
    ELSE IF name = <<"b", "..", "a.txt">> THEN [offset |-> 1, size |-> 1]
    ELSE [offset |-> 0, size |-> 1]

\* the items of the mapping the hook returns for these names
Created(names, len) ==
    [i \in 1..Len(names) |->
        [name |-> names[i], entry |-> EntryOf(names[i], len)]]

\* the bytes of the archive of this kind
ArchiveBytes(kind) == IF kind = "resource" THEN FileBytes(MaxRes) ELSE Data

NoIter == [state |-> "none"]
IterIds == {1, 2}

InitIter ==
    /\ raw = NewRaw
    /\ views = <<>>
    /\ solo = NoSolo("")
    /\ born = NoBirth
    /\ vlast = NoCall
    /\ rfile = ResourceFile_init(<<>>, NoTmp)
    /\ rstream = ResourceStream_init(rfile)
    /\ closes = 0
    /\ slast = [op |-> "none"]
    /\ loaded = <<>>
    /\ tmpfiles = <<>>
    /\ scope = <<>>
    /\ llast = [op |-> "none"]
    /\ \E kind \in BackKinds, names \in HookOutputs :
          arc = BaseArchive_init_hook(kind, Created(names, BackingLen(kind)))
    /\ handle = NoHandle
    /\ alast = [op |-> "none"]
    /\ forced = NoForced
    /\ its = [i \in IterIds |-> NoIter]
    /\ dest = EmptyDir
    /\ wlast = [op |-> "none"]

\* it = iter(arc): a new generator, not yet run
IterStart(i) ==
    /\ its' = [its EXCEPT ![i] = [state |-> "running", cursor |-> 0,
                                  yielded |-> <<>>]]
    /\ wlast' = [op |-> "iter"]
    /\ UNCHANGED <<arc, dest>>

\* next(it): the generator yields the ArchivePath of the next key of the
\* index, or ends
IterNext(i) ==
    /\ its[i].state = "running"
    /\ its' = [its EXCEPT ![i] =
                  IF its[i].cursor < Len(arc.order)
                  THEN [state |-> "running", cursor |-> its[i].cursor + 1,
                        yielded |-> Append(its[i].yielded,
                            ArchivePath_init(arc.order[its[i].cursor + 1]))]
                  ELSE [its[i] EXCEPT !.state = "done"]]
    /\ wlast' = [op |-> "iter"]
    /\ UNCHANGED <<arc, dest>>

\* list(arc.glob(pattern))
GlobList(pattern) ==
    /\ wlast' = [op |-> "glob", pattern |-> pattern,
                 paths |-> BaseArchive_glob(arc, pattern)]
    /\ UNCHANGED <<arc, its, dest>>

\* ArchivePath(key, arc).read_bytes(): the member is opened in mode 'rb' and
\* read to its end
ReadBytes(key) ==
    LET o == BaseArchive_open(arc, ArchivePath_init(key).fname, FALSE)
        r == EntryStream_read(o.entry, o.arc.backing)
    IN  /\ IF o.err # ""
           THEN /\ arc' = o.arc
                /\ wlast' = [op |-> "read_bytes", key |-> key, err |-> o.err,
                             data |-> <<>>]
           ELSE /\ arc' = [arc EXCEPT !.backing = r.backing]
                /\ wlast' = [op |-> "read_bytes", key |-> key, err |-> r.err,
                             data |-> r.data]
        /\ UNCHANGED <<its, dest>>

\* the names ArchivePath objects are made with
ProbeNames ==
    {<<"a.txt">>, <<".", "a.txt">>, <<"b", "c.bin">>, <<"c.bin">>,
     <<"x", "a.txt">>, <<"b">>, <<"nope">>, <<".">>}

\* ArchivePath(fname, arc).exists()
Exists(fname) ==
    LET p == ArchivePath_init(fname)
        x == ArchivePath_exists(arc, p)
    IN  /\ wlast' = [op |-> "exists", path |-> p, err |-> x.err,
                     value |-> x.value]
        /\ UNCHANGED <<arc, its, dest>>

NextIter ==
    \/ /\ \E fname \in ProbeNames : Exists(fname)
       /\ UNCHANGED <<viewVars, streamVars, resVars, handle, alast, loadVars>>
    \/ /\ \E i \in IterIds : IterStart(i)
       /\ UNCHANGED <<viewVars, streamVars, resVars, handle, alast, loadVars>>
    \/ /\ \E i \in IterIds : IterNext(i)
       /\ UNCHANGED <<viewVars, streamVars, resVars, handle, alast, loadVars>>
    \/ /\ \E pattern \in Patterns : GlobList(pattern)
       /\ UNCHANGED <<viewVars, streamVars, resVars, handle, alast, loadVars>>
    \/ /\ \E key \in DOMAIN arc.index : ReadBytes(key)
       /\ UNCHANGED <<viewVars, streamVars, resVars, handle, alast, loadVars>>

SpecIter == InitIter /\ [][NextIter]_vars

(***************************************************************************)
(* SpecExtract: an archive whose index comes from one of the hook outputs  *)
(* is extracted into an empty directory, with any pattern, before and      *)
(* after members are read and the archive is closed; the host may refuse   *)
(* the first write of one of the files.                                    *)
(***************************************************************************)
InitExtract ==
    /\ raw = NewRaw
    /\ views = <<>>
    /\ solo = NoSolo("")
    /\ born = NoBirth
    /\ vlast = NoCall
    /\ rfile = ResourceFile_init(<<>>, NoTmp)
    /\ rstream = ResourceStream_init(rfile)
    /\ closes = 0
    /\ slast = [op |-> "none"]
    /\ loaded = <<>>
    /\ tmpfiles = <<>>
    /\ scope = <<>>
    /\ llast = [op |-> "none"]
    /\ \E kind \in BackKinds, names \in HookOutputs :
          arc = BaseArchive_init_hook(kind, Created(names, BackingLen(kind)))
    /\ handle = NoHandle
    /\ alast = [op |-> "none"]
    /\ forced = NoForced
    /\ its = <<>>
    /\ dest = EmptyDir
    /\ wlast = [op |-> "none"]

\* arc.extractall(dirname, pattern), dirname empty; the host refuses the
\* write number fail.chunk of the file number fail.at
ExtractAll(pattern, fail) ==
    LET x == BaseArchive_extractall(arc, pattern, fail)
    IN  /\ arc' = x.arc
        /\ dest' = x.fs
        /\ wlast' = [op |-> "extractall", pattern |-> pattern,
                     err |-> x.err, failedAt |-> x.failedAt,
                     tried |-> x.tried, sizes |-> x.sizes,
                     matching |-> BaseArchive_glob(arc, pattern)]
        /\ UNCHANGED its

\* arc.close()
CloseWalked ==
    /\ arc.state = "Indexed"
    /\ arc' = BaseArchive_close(arc)
    /\ wlast' = [op |-> "close"]
    /\ UNCHANGED <<its, dest>>

NextExtract ==
    \/ /\ \E pattern \in Patterns,
             fail \in {NoFail} \cup {[at |-> k, chunk |-> 1] : k \in 1..2} :
             ExtractAll(pattern, fail)
       /\ UNCHANGED <<viewVars, streamVars, resVars, handle, alast, loadVars>>
    \/ /\ \E key \in DOMAIN arc.index : ReadBytes(key)
       /\ UNCHANGED <<viewVars, streamVars, resVars, handle, alast, loadVars>>
    \/ /\ CloseWalked
       /\ UNCHANGED <<viewVars, streamVars, resVars, handle, alast, loadVars>>

SpecExtract == InitExtract /\ [][NextExtract]_vars

(***************************************************************************)
(* SpecConstruct: the caller has a path or a stream, moves the stream, and *)
(* constructs the archive on it; members are read and the archive is       *)
(* closed afterwards.  While arc.state is "Created", arc.file is the       *)
(* argument the constructor will be given.                                 *)
(***************************************************************************)
InitConstruct ==
    /\ raw = NewRaw
    /\ views = <<>>
    /\ solo = NoSolo("")
    /\ born = NoBirth
    /\ vlast = NoCall
    /\ rfile = ResourceFile_init(<<>>, NoTmp)
    /\ rstream = ResourceStream_init(rfile)
    /\ closes = 0
    /\ slast = [op |-> "none"]
    /\ loaded = <<>>
    /\ tmpfiles = <<>>
    /\ scope = <<>>
    /\ llast = [op |-> "none"]
    /\ \E file \in {PathFile} \cup {StreamFile(NewBacking(kind)) :
                                      kind \in BackKinds} :
          arc = [state |-> "Created", file |-> file]
    /\ handle = NoHandle
    /\ alast = [op |-> "none"]
    /\ forced = NoForced
    /\ its = <<>>
    /\ dest = EmptyDir
    /\ wlast = [op |-> "none"]

\* the caller moves the stream it is going to hand over
CallerSeek(p) ==
    /\ arc.state = "Created" /\ ~arc.file.ispath
    /\ BackingPos(arc.file.stream) # p
    /\ arc' = [arc EXCEPT !.file.stream = BackingSeek(@, p)]
    /\ wlast' = [op |-> "seek"]
    /\ UNCHANGED <<its, dest>>

\* arc = Archive(file), the hook returning the items of these names
Construct(names) ==
    /\ arc.state = "Created"
    /\ arc' = BaseArchive_init_file(arc.file,
                 Created(names, IF arc.file.ispath THEN BackingLen("resource")
                                ELSE BackingLen(arc.file.stream.kind)))
    /\ wlast' = [op |-> "init", ispath |-> arc.file.ispath]
    /\ UNCHANGED <<its, dest>>

NextConstruct ==
    \/ /\ \E p \in 0..FileLen : CallerSeek(p)
       /\ UNCHANGED <<viewVars, streamVars, resVars, handle, alast, loadVars>>
    \/ /\ \E names \in HookOutputs : Construct(names)
       /\ UNCHANGED <<viewVars, streamVars, resVars, handle, alast, loadVars>>
    \/ /\ arc.state = "Indexed"
       /\ \E key \in DOMAIN arc.index : ReadBytes(key)
       /\ UNCHANGED <<viewVars, streamVars, resVars, handle, alast, loadVars>>
    \/ /\ CloseWalked
       /\ UNCHANGED <<viewVars, streamVars, resVars, handle, alast, loadVars>>

SpecConstruct == InitConstruct /\ [][NextConstruct]_vars

(***************************************************************************)
(* Claims on the resource stream layer.                                    *)
(***************************************************************************)
\* the last call was partial(offset, size).read() on an open ResourceFile
\* with 0 <= offset, 0 <= size and offset + size <= len(buffer)
ValidPartial ==
    /\ slast.op = "partial" /\ ~slast.wasClosed
    /\ slast.offset >= 0 /\ slast.size >= 0
    /\ slast.offset + slast.size <= Len(rfile.buffer)

\* C4: partial(offset, size).read() returns exactly
\* buffer[offset : offset + size], through the in-memory copy when size is at
\* most the default buffer size and through the buffered second ResourceFile
\* when it is larger, wherever the ResourceStream stands.
C4_PartialReadIsSlice ==
    ValidPartial =>
        /\ slast.err = ""
        /\ slast.data = SubSeq(rfile.buffer, slast.offset + 1,
                               slast.offset + slast.size)
        /\ slast.kind = IF slast.size > DEFAULT_BUFFER_SIZE
                        THEN "buffered" ELSE "bytesio"

\* C4 witness: a partial read through the buffered branch, of more bytes than
\* one chunk, from an offset past 0, with the ResourceStream itself moved off
\* position 0.
C4_Witness ==
    /\ ValidPartial /\ slast.kind = "buffered"
    /\ slast.offset > 0 /\ rstream.pos > 0
    /\ Len(slast.data) > DEFAULT_BUFFER_SIZE

\* the calls that read a ResourceFile, directly or through its stream
ResourceAccesses ==
    {"len", "buffer", "getitem", "getslice", "read", "readinto"}

SeekTarget(at, size, offset, whence) ==
    IF whence = SEEK_SET THEN offset
    ELSE IF whence = SEEK_CUR THEN at + offset
    ELSE size + offset

\* C17: ResourceStream.seek addresses absolutely, from the current position
\* and from the end; it returns the target when the target is not negative
\* and fails with OSError whenever the target is negative.
C17_SeekRejectsNegative ==
    slast.op = "seek" =>
        LET target == SeekTarget(slast.at, rstream.size, slast.offset,
                                 slast.whence)
        IN  /\ slast.err # "" <=> target < 0
            /\ slast.err = "" => slast.n = target /\ ResourceStream_tell(rstream) = target
            /\ slast.err # "" => slast.err = "OSError: Negative seek position"

\* C17 witness: from a position past 0, a seek from the end to before the
\* start of a non-empty stream was rejected.
C17_Witness ==
    /\ slast.op = "seek" /\ slast.whence = SEEK_END /\ slast.err # ""
    /\ slast.at > 0 /\ rstream.size > 0 /\ slast.at # rstream.size

\* the last call was read(size) on the stream of an open ResourceFile
OpenRead == slast.op = "read" /\ ~slast.wasClosed

\* the number of bytes between position at and the end of the stream
Remaining(at) == Max(0, rstream.size - at)

\* C19: read(n) at position pos returns the bytes from pos to the end when n
\* is omitted or negative and min(n, max(0, L - pos)) bytes from pos when
\* n >= 0: never more than requested, only bytes of the buffer at pos and
\* after, nothing when pos >= L.
C19_ReadReturnsAvailable ==
    OpenRead =>
        LET k == IF slast.size.given /\ slast.size.n >= 0
                 THEN Min(slast.size.n, Remaining(slast.at))
                 ELSE Remaining(slast.at)
        IN  /\ slast.err = ""
            /\ Len(slast.data) = k
            /\ \A i \in 1..Len(slast.data) :
                  /\ slast.at + i \in 1..Len(rfile.buffer)
                  /\ slast.data[i] = rfile.buffer[slast.at + i]

\* the last call was readinto(b) on the stream of an open ResourceFile
OpenReadInto == slast.op = "readinto" /\ ~slast.wasClosed

\* C20: readinto(b) with len(b) = B at position pos fills the first
\* k = min(B, max(0, L - pos)) bytes of b with buffer[pos : pos + k], leaves
\* the rest of b and the length of b as they were, and returns k, which is
\* never negative.
C20_ReadIntoFillsPrefix ==
    OpenReadInto =>
        LET k == Min(slast.blen, Remaining(slast.at))
        IN  /\ slast.err = ""
            /\ slast.n = k /\ slast.n >= 0
            /\ Len(slast.data) = slast.blen
            /\ \A i \in 1..Len(slast.data) :
                  slast.data[i] = IF i <= k THEN rfile.buffer[slast.at + i]
                                  ELSE 0

\* C22: tell() is the target of the last accepted seek plus the bytes
\* returned since: a seek rejected for a negative target leaves the position
\* where it was, an accepted seek puts it on the target, a read or readinto
\* that returns k bytes moves it forward by exactly k, also from a position
\* beyond the end, and the position is never negative.
C22_TellTracksSeeksAndReads ==
    /\ ResourceStream_tell(rstream) >= 0
    /\ slast.op = "seek" =>
          ResourceStream_tell(rstream) =
              IF slast.err # "" THEN slast.at
              ELSE SeekTarget(slast.at, rstream.size, slast.offset,
                              slast.whence)
    /\ (slast.op = "read" /\ slast.err = "") =>
          ResourceStream_tell(rstream) = slast.at + Len(slast.data)
    /\ (slast.op = "readinto" /\ slast.err = "") =>
          ResourceStream_tell(rstream) = slast.at + slast.n

(***************************************************************************)
(* Claims on the resource loader.                                          *)
(***************************************************************************)
\* the resources that hold temporary file t
Holders(t) == {id \in ResIds : loaded[id].tmpfile = t}

\* C9: a temporary file is held by exactly one ResourceFile while it is open
\* and is released when that ResourceFile closes: a closed ResourceFile holds
\* no temporary file, no temporary file stays open without a holder, and a
\* ResourceFile is closed once its `with` block has ended, normally or by an
\* exception.
C9_TempFileReleased ==
    /\ \A t \in 1..Len(tmpfiles) :
          /\ Cardinality(Holders(t)) <= 1
          /\ tmpfiles[t].open <=> Holders(t) # {}
          /\ \A id \in Holders(t) : ~loaded[id].closed
    /\ \A id \in ResIds :
          /\ loaded[id].closed => loaded[id].tmpfile = NoTmp
          /\ scope[id] \in {"left", "raised"} => loaded[id].closed

\* C9 witness: two temporary files were created; the `with` block of one
\* resource ended by an exception and its temporary file is gone, while the
\* other resource still holds its own.
C9_Witness ==
    /\ Len(tmpfiles) = 2
    /\ \E id \in ResIds :
          /\ scope[id] = "raised" /\ loaded[id].closed
          /\ \E o \in ResIds \ {id} :
                /\ loaded[o].tmpfile # NoTmp
                /\ tmpfiles[loaded[o].tmpfile].open
                /\ ~tmpfiles[3 - loaded[o].tmpfile].open

\* the last call loaded a file at or above the threshold with key 0
LargePlainLoad ==
    llast.op = "load" /\ llast.size >= Threshold /\ llast.key = 0

BothLoaded == forced.applied < 2 /\ forced.small.done /\ forced.large.done

Results == {l \in {forced.small, forced.large} : l.done /\ l.err = ""}

\* C12: the XOR transform of load is an involution: applied twice with the
\* same key it gives back the data, so a content stored transformed loads
\* back as the original with the same key; every output byte is in 0..255
\* and key 0 changes nothing.
C12_XorRoundTrips ==
    forced.applied > 0 \/ forced.small.done \/ forced.large.done =>
        /\ XorBytes(XorBytes(forced.content, forced.key), forced.key)
              = forced.content
        /\ forced.applied = 2 => forced.stored = forced.content
        /\ forced.applied = 1 =>
              /\ forced.stored = XorBytes(forced.content, forced.key)
              /\ \A l \in Results : l.bytes = forced.content
        /\ \A l \in Results :
              /\ \A i \in 1..Len(l.bytes) : l.bytes[i] \in 0..255
              /\ Len(l.bytes) = Len(forced.stored)
              /\ forced.key = 0 => l.bytes = forced.stored

\* C12 witness: a content of two different bytes stored transformed with key
\* 0x5A was loaded back with key 0x5A through the mapping path.
C12_Witness ==
    /\ forced.applied = 1 /\ forced.key = 90
    /\ forced.content = <<0, 255>> /\ forced.stored # forced.content
    /\ forced.large.done /\ forced.large.err = ""
    /\ forced.large.bytes = forced.content

(***************************************************************************)
(* Claims on the construction of an archive.                               *)
(***************************************************************************)
\* C21: when the constructor calls the hook that builds the index, the
\* backing stream stands at offset 0, for an archive made from a path and
\* for one made from a stream of the caller wherever that stream stood; the
\* hook is called exactly once.
C21_HookSeesStreamAtStart ==
    arc.state # "Created" => arc.hookpos = 0 /\ arc.hooks = 1

(***************************************************************************)
(* Claims on iteration and glob.                                           *)
(***************************************************************************)
\* C13: for any index a hook builds, the paths glob('*') yields are exactly
\* the keys of the index.
C13_GlobAllYieldsKeys ==
    (wlast.op = "glob" /\ wlast.pattern = GLOB_ALL) =>
        {ArchivePath_str(wlast.paths[i]) : i \in 1..Len(wlast.paths)}
            = DOMAIN arc.index

\* the normal forms of the names the hook returned, each at the place where
\* it first appears
FirstKeys(created) ==
    LET firsts == SelectSeq([i \in 1..Len(created) |-> i],
                     LAMBDA i : \A j \in 1..i - 1 :
                         normpath(created[j].name) # normpath(created[i].name))
    IN  [k \in 1..Len(firsts) |-> normpath(created[firsts[k]].name)]

\* C14: every iterator, whenever it was started and whatever iterations,
\* reads and globs came before, yields the keys of the index one by one in
\* the insertion order of the hook's mapping, one ArchivePath per key, and
\* ends after the last.
C14_IterationInOrder ==
    \A i \in DOMAIN its :
        its[i].state # "none" =>
            LET keys == FirstKeys(arc.created)
            IN  /\ its[i].cursor <= Len(keys)
                /\ its[i].yielded =
                      [k \in 1..its[i].cursor |-> [fname |-> keys[k]]]
                /\ its[i].state = "done" => its[i].cursor = Len(keys)
                /\ {keys[k] : k \in 1..Len(keys)} = DOMAIN arc.index
                /\ Len(keys) = Cardinality(DOMAIN arc.index)

\* C14 witness: the hook named one member twice; after a member was read,
\* one iterator has stopped half way and another, started later, has run
\* to its end.
C14_Witness ==
    /\ its # <<>> /\ its[1].state = "running" /\ its[1].cursor = 1
    /\ its[2].state = "done" /\ Len(its[2].yielded) = 2
    /\ Len(arc.created) = 3
    /\ BackingPos(arc.backing) > 0

\* C23: a path whose exists() returned true has its normal form among the
\* keys of the index, so that opening it does not fail with
\* MemberNotFoundError; and every path an iterator of the archive has
\* yielded exists.
C23_ExistsMeansKey ==
    /\ (wlast.op = "exists" /\ wlast.err = "" /\ wlast.value) =>
          /\ wlast.path.fname \in DOMAIN arc.index
          /\ BaseArchive_open(arc, wlast.path.fname, FALSE).err
                 # MemberNotFoundError
    /\ \A i \in DOMAIN its :
          its[i].state # "none" =>
              \A j \in 1..Len(its[i].yielded) :
                  ArchivePath_exists(arc, its[i].yielded[j])
                      = [err |-> "", value |-> TRUE]

(***************************************************************************)
(* Claims on extractall.                                                   *)
(***************************************************************************)
\* the bytes of the member behind key in the archive
MemberBytes(key) ==
    LET e == arc.index[key]
    IN  SubSeq(ArchiveBytes(arc.backing.kind), e.offset + 1, e.offset + e.size)

\* the file extractall writes for the ArchivePath p holds the member's bytes
Extracted(p) ==
    /\ PathParts(p.fname) \in DOMAIN dest.files
    /\ dest.files[PathParts(p.fname)] = MemberBytes(p.fname)
    /\ Len(dest.files[PathParts(p.fname)]) = arc.index[p.fname].size

\* C15: an extractall that succeeds has written, for every key of the index
\* that matches the pattern, a file at the same relative path holding the
\* member's bytes, and no other file; no chunk written was larger than the
\* default buffer size.
C15_ExtractAllWritesMatching ==
    (wlast.op = "extractall" /\ wlast.err = "") =>
        /\ \A key \in DOMAIN arc.index :
              ArchivePath_match(ArchivePath_init(key), wlast.pattern)
                  => Extracted(ArchivePath_init(key))
        /\ \A path \in DOMAIN dest.files :
              \E key \in DOMAIN arc.index :
                  /\ PathParts(key) = path
                  /\ ArchivePath_match(ArchivePath_init(key), wlast.pattern)
        /\ \A i \in 1..Len(wlast.sizes) :
              wlast.sizes[i] \in 1..DEFAULT_BUFFER_SIZE

\* C15 witness: the archive of the three members a.txt, b/c.bin and empty
\* was extracted with '*': three files, one of them written in more than
\* one chunk, one of them empty.
C15_Witness ==
    /\ wlast.op = "extractall" /\ wlast.err = "" /\ wlast.pattern = GLOB_ALL
    /\ DOMAIN dest.files = {<<"a.txt">>, <<"b", "c.bin">>, <<"empty">>}
    /\ Len(dest.files[<<"b", "c.bin">>]) > DEFAULT_BUFFER_SIZE
    /\ dest.files[<<"empty">>] = <<>>
    /\ Len(wlast.sizes) = 3

\* C16: when the extraction of the k-th matching entry fails, extractall
\* raises the error, no entry after the k-th was begun or written, and the
\* files of the entries before the k-th are in place with their full
\* content.
C16_FirstFailureAborts ==
    (wlast.op = "extractall" /\ wlast.failedAt > 0) =>
        LET k == wlast.failedAt
            m == wlast.matching
        IN  /\ wlast.err # ""
            /\ k <= Len(m)
            /\ wlast.tried = SubSeq(m, 1, k)
            /\ \A j \in 1..k - 1 : Extracted(m[j])
            /\ \A j \in k + 1..Len(m) :
                  PathParts(m[j].fname) \notin DOMAIN dest.files

\* C16 witness: the host refused a write of the second of three files; the
\* first file is complete and the third was not made.
C16_Witness ==
    /\ wlast.op = "extractall" /\ wlast.err = WriteError
    /\ wlast.failedAt = 2 /\ Len(wlast.matching) = 3
    /\ Extracted(wlast.matching[1])
    /\ Cardinality(DOMAIN dest.files) = 2

(***************************************************************************)
(* Claims on the archive layer.                                            *)
(***************************************************************************)
\* C5: once the block of `with arc.open(name)` has ended, normally or by an
\* exception, the entry stream it was given (and the second ResourceFile
\* partial() made for it) is closed.
C5_EntryClosedAfterScope ==
    handle.scope \in {"left", "raised"} => EntryClosed(handle.stream)

\* the last call was open() of a name whose normal form is in the index
OpenedPresent ==
    alast.op = "open" /\ normpath(alast.fname) \in DOMAIN arc.index

\* C6: open(name) fails with MemberNotFoundError exactly when the normal
\* form of name is not a key of the index; then _read_entry did not run and
\* the backing stream is where it was.  Every name with the same normal form
\* resolves to the same member.
C6_MissingMemberFails ==
    alast.op = "open" =>
        /\ alast.err = MemberNotFoundError <=> ~OpenedPresent
        /\ alast.err = MemberNotFoundError =>
              ~alast.hooked /\ BackingPos(arc.backing) = alast.pos
        /\ \A other \in Names :
              normpath(other) = normpath(alast.fname) =>
                  LET o == BaseArchive_open(arc, other, FALSE)
                  IN  /\ o.hooked = alast.hooked
                      /\ o.member = alast.member

\* C6 witness: after a member was opened and the backing stream moved, a
\* name that leaves the archive ("../a.txt") was refused.
C6_Witness ==
    /\ alast.op = "open" /\ alast.fname = <<"..", "a.txt">>
    /\ alast.err = MemberNotFoundError
    /\ alast.pos > 0
    /\ handle.scope = "inside" /\ handle.member.size > 0

\* C7: once the archive is Closed, opening and entering a member of the
\* index fails with the closed-resource error and yields no stream, whatever
\* the backing stream and the size of the member.
C7_OpenAfterCloseFails ==
    (OpenedPresent /\ alast.was = "Closed") =>
        alast.err = ClosedError /\ ~alast.yielded

\* what reading the member behind key from its start to its end returns
Reopened(key) ==
    LET o == BaseArchive_open(arc, key, FALSE)
        r == EntryStream_read(o.entry, o.arc.backing)
    IN  [err |-> IF o.err # "" THEN o.err ELSE r.err,
         data |-> IF o.err # "" THEN <<>> ELSE r.data]

\* C25: closing the stream open() yielded, in binary or text mode, closes
\* neither the backing stream nor the Resource of an Indexed archive: the
\* archive stays Indexed, its index is what it was, and every member, the
\* closed one included, opens again and reads as the bytes of its entry.
C25_EntryCloseLeavesArchive ==
    (alast.op = "close_entry" /\ alast.was = "Indexed") =>
        /\ arc.state = "Indexed"
        /\ ~BackingClosed(arc.backing)
        /\ arc.index = alast.index
        /\ \A key \in DOMAIN arc.index :
              Reopened(key) =
                  [err |-> "",
                   data |-> SubSeq(ArchiveBytes(arc.backing.kind),
                                   arc.index[key].offset + 1,
                                   arc.index[key].offset
                                       + arc.index[key].size)]

\* C25 witness: the stream of a member larger than the buffer size, served
\* by a second ResourceFile, was read and then closed after its block, and
\* the second ResourceFile is closed.
C25_Witness ==
    /\ alast.op = "close_entry" /\ alast.was = "Indexed"
    /\ handle.scope = "left"
    /\ handle.stream.kind = "buffered"
    /\ handle.stream.res.closed
    /\ handle.stream.stream.pos > 0

(***************************************************************************)
(* Claims on the view layer.                                               *)
(***************************************************************************)
\* C18: PartialStreamView.seek rejects every seek whose target is negative,
\* so the position of a view is never negative.
C18_ViewPositionNeverNegative ==
    \A id \in DOMAIN views :
        views[id] # NoView => PartialStreamView_tell(views[id]) >= 0

\* what the last call returned, when it was a read that did not raise
LastRead == vlast.op = "read" /\ ~vlast.raised

\* C1 (as claimed): every read on a view returns only bytes of the
\* underlying range [start, start + size), and a read made at a position
\* greater than the size returns no bytes.
C1_ReadsStayInWindow ==
    LastRead =>
        LET v == views[vlast.id]
        IN  /\ vlast.data # <<>> =>
                 /\ vlast.at >= v.start
                 /\ vlast.at + Len(vlast.data) <= v.start + v.size
            /\ vlast.past => vlast.data = <<>>

\* what a read of size n on view v returns does not depend on where the
\* shared raw stream stands
CursorFree(v, n) ==
    \A c \in 0..FileLen :
        LET a == PartialStreamView_read(v, raw, n)
            b == PartialStreamView_read(v, [raw EXCEPT !.pos = c], n)
        IN  a.raised = b.raised /\ a.data = b.data /\ a.view = b.view

\* C2: views that share one raw stream are independent: a read on the
\* replayed view returns exactly what the same calls return on a stream that
\* nobody else uses and leaves the view at the same position, and no read on
\* any view depends on where other users left the shared stream.
C2_ViewsIndependent ==
    /\ vlast.op = "read" => vlast.same
    /\ solo.view # NoView => views[solo.id] = solo.view
    /\ \A i \in DOMAIN views :
          views[i] # NoView => \A n \in ReadSizes : CursorFree(views[i], n)

\* C2 witness: view v1 has returned bytes from a read it had to reposition
\* the shared stream for, after view v2 had read bytes of its own.
C2_Witness ==
    /\ LastRead /\ vlast.id = "v1" /\ vlast.moved /\ vlast.data # <<>>
    /\ views["v2"] # NoView /\ views["v2"].pos > 0
    /\ views["v1"].pos > Len(vlast.data)

\* C24: a view nested in a view with start s1_start, size s1 and position p
\* (0 <= p <= s1) returns, from a position inside its own size, only bytes
\* of the parent's window [s1_start, s1_start + s1) of the innermost source,
\* whatever size s2 it was given.
C24_NestedStaysInParentWindow ==
    (/\ born.how = "nested"
     /\ born.ppos \in 0..born.psize
     /\ LastRead /\ vlast.id = "nested" /\ vlast.data # <<>>
     /\ ~vlast.past
     /\ views["nested"].pos - Len(vlast.data) >= 0) =>
        /\ vlast.at >= born.pstart
        /\ vlast.at + Len(vlast.data) <= born.pstart + born.psize

\* C3: a view of size s2 nested in a view (start s1_start, size s1 >= s2,
\* position p) is bound to the innermost source at s1_start + p, and after
\* any calls on both views it stands where a single view made directly there
\* stands and its reads return the same bytes.
C3_NestedCollapses ==
    (/\ born.how = "nested"
     /\ born.pstart + born.ppos >= 0
     /\ views["nested"].size <= born.psize) =>
        /\ views["nested"].stream = "raw"
        /\ views["nested"].start = born.pstart + born.ppos
        /\ solo.view = views["nested"]
        /\ (vlast.op = "read" /\ vlast.id = "nested") => vlast.same

\* C3 witness: the nested view was made over an outer view that starts past
\* offset 0 and had been read from, the outer view has moved since, and the
\* nested view has returned bytes.
C3_Witness ==
    /\ born.how = "nested" /\ born.pstart > 0 /\ born.ppos > 0
    /\ views["nested"].size <= born.psize
    /\ views["outer"].pos # born.ppos
    /\ LastRead /\ vlast.id = "nested" /\ vlast.data # <<>>

====
